---- MODULE Spec2Model ----
(***************************************************************************)
(* Resume skill-extraction pipeline of skills_extraction_Llama_ds.ipynb:   *)
(* text normalisation, LLM extraction, ESCO mapping and evaluation.         *)
(*                                                                         *)
(* A Python str is a sequence of one-character strings; a pandas missing   *)
(* value (float nan) is the value NaN, which is no str.                    *)
(***************************************************************************)
EXTENDS Integers, Sequences, FiniteSets, TLC

VARIABLES
    pc,                     \* the notebook's position: the step that runs next
    error,                  \* the exception that stopped the run, or "none"
    Category,               \* df['Category'], one entry per row
    Text,                   \* df['Text']
    Text_Clean,             \* df['Text_Clean']
    resumeAtlas_cleaned,    \* the file resumeAtlas_cleaned.csv
    HF_TOKEN_L,             \* the Colab secret HF_TOKEN_L, None when absent
    requests,               \* the calls of the running extraction cell to the
                            \* inference endpoint: messages and completion
    cursor,                 \* rows of the running progress_apply already done
    extracted_skills_raw,   \* df_resumes_for_extraction['extracted_skills_raw']
    extracted_skills_output,\* the file extracted_skills_output.csv
    esco_df,                \* skills_en.csv[['preferredLabel', 'altLabels']]
    extracted_skills_set,   \* df_mapping['extracted_skills_set']
    fuzzy_queries,          \* per row, the skills handed to process.extractOne
    map_results,            \* per row, map_to_esco(x) for each x of the set
    mapped_skills_str,      \* df_mapping['mapped_skills_str']
    mapped_skills_output,   \* the file mapped_skills_output.csv
    expected_skills,        \* df['expected_skills']
    mapped_skills,          \* df['mapped_skills']
    metrics,                \* ce_df[['precision', 'recall', 'f1_score']]
    averages,               \* the means the evaluation cell prints
    extracted_skills_raw_kg,  \* df_resumes_for_extraction['extracted_skills_raw_kg']
    extracted_skills_kg_output, \* the file extracted_skills_kg_output.csv
    mapped_skills_kg_output,    \* the file mapped_skills_kg_output.csv
    mapped_skills_kg_with_expected_esco_for_ds,  \* the file of that name
    occupations,            \* occupations_en.csv
    occ_skill_rels,         \* occupationSkillRelations_en.csv
    expected_esco_skills,   \* the file expected_esco_skills.csv
    mapped_skills_with_expected_esco_for_ds  \* the file of that name (.csv)

vars == <<pc, error, Category, Text, Text_Clean, resumeAtlas_cleaned,
          HF_TOKEN_L, requests, cursor,
          extracted_skills_raw, extracted_skills_output, esco_df,
          extracted_skills_set, fuzzy_queries, map_results,
          mapped_skills_str, mapped_skills_output, expected_skills,
          mapped_skills, metrics, averages, extracted_skills_raw_kg,
          extracted_skills_kg_output, mapped_skills_kg_output,
          mapped_skills_kg_with_expected_esco_for_ds,
          occupations, occ_skill_rels,
          expected_esco_skills, mapped_skills_with_expected_esco_for_ds>>

frameVars == <<Category, Text, Text_Clean>>
extractVars == <<HF_TOKEN_L, requests, cursor, extracted_skills_raw,
                 extracted_skills_output>>
mapVars == <<esco_df, extracted_skills_set, fuzzy_queries, map_results,
             mapped_skills_str, mapped_skills_output>>
evalVars == <<expected_skills, mapped_skills, metrics, averages>>
kgVars == <<extracted_skills_raw_kg, extracted_skills_kg_output>>
kgStageVars == <<mapped_skills_kg_output,
                 mapped_skills_kg_with_expected_esco_for_ds>>
resolverVars == <<occupations, occ_skill_rels, expected_esco_skills,
                  mapped_skills_with_expected_esco_for_ds>>

-----------------------------------------------------------------------------
(* Characters and Python's str methods                                      *)

NaN == <<"NaN">>
isinstance_str(x) == x # NaN

LowerAZ == <<"a", "b", "c", "d", "e", "f", "g", "h", "i", "j", "k", "l", "m",
            "n", "o", "p", "q", "r", "s", "t", "u", "v", "w", "x", "y", "z">>
UpperAZ == <<"A", "B", "C", "D", "E", "F", "G", "H", "I", "J", "K", "L", "M",
            "N", "O", "P", "Q", "R", "S", "T", "U", "V", "W", "X", "Y", "Z">>
Range(f) == {f[k] : k \in DOMAIN f}
LowerLetters == Range(LowerAZ)
UpperLetters == Range(UpperAZ)
Digits == {"0", "1"}
Whitespace == {" ", "\t"}
Punctuation == {",", ";", "(", ")", ".", "+", "#", "-", "|", "\"", "/"}
WordChars == LowerLetters \cup UpperLetters \cup Digits \cup {"_"}
Chars == WordChars \cup Whitespace \cup Punctuation

\* str.lower on one character
lower_char(c) ==
    IF c \in UpperLetters
    THEN LowerAZ[CHOOSE k \in DOMAIN UpperAZ : UpperAZ[k] = c]
    ELSE c

\* str.lower
str_lower(s) == [k \in 1..Len(s) |-> lower_char(s[k])]

RECURSIVE lstrip(_)
lstrip(s) ==
    IF s # <<>> /\ Head(s) \in Whitespace THEN lstrip(Tail(s)) ELSE s

RECURSIVE rstrip(_)
rstrip(s) ==
    IF s # <<>> /\ s[Len(s)] \in Whitespace
    THEN rstrip(SubSeq(s, 1, Len(s) - 1)) ELSE s

\* str.strip
str_strip(s) == rstrip(lstrip(s))

RECURSIVE drop_while(_, _)
drop_while(s, cls) ==
    IF s # <<>> /\ Head(s) \in cls THEN drop_while(Tail(s), cls) ELSE s

\* re.sub / str.replace(regex=True) of the pattern [cls]+ by repl
RECURSIVE sub_runs(_, _, _)
sub_runs(s, cls, repl) ==
    IF s = <<>> THEN <<>>
    ELSE IF Head(s) \in cls
         THEN repl \o sub_runs(drop_while(s, cls), cls, repl)
         ELSE <<Head(s)>> \o sub_runs(Tail(s), cls, repl)

\* re.sub / str.replace(regex=True) of the pattern [cls] by repl
RECURSIVE sub_each(_, _, _)
sub_each(s, cls, repl) ==
    IF s = <<>> THEN <<>>
    ELSE (IF Head(s) \in cls THEN repl ELSE <<Head(s)>>)
         \o sub_each(Tail(s), cls, repl)

\* str.replace(old, new): every non-overlapping occurrence, left to right
RECURSIVE str_replace(_, _, _)
str_replace(s, old, new) ==
    IF Len(s) < Len(old) THEN s
    ELSE IF SubSeq(s, 1, Len(old)) = old
         THEN new \o str_replace(SubSeq(s, Len(old) + 1, Len(s)), old, new)
         ELSE <<Head(s)>> \o str_replace(Tail(s), old, new)

\* str.split(sep) for a one-character separator: the list of pieces
RECURSIVE str_split(_, _)
str_split(s, sep) ==
    IF \A k \in 1..Len(s) : s[k] # sep THEN <<s>>
    ELSE LET at == CHOOSE k \in 1..Len(s) :
                       s[k] = sep /\ \A j \in 1..(k - 1) : s[j] # sep
         IN  <<SubSeq(s, 1, at - 1)>>
                 \o str_split(SubSeq(s, at + 1, Len(s)), sep)

\* str.split(): the whitespace-separated tokens
RECURSIVE str_tokens(_)
str_tokens(s) ==
    LET t == lstrip(s)
    IN  IF t = <<>> THEN <<>>
        ELSE LET n == IF \E k \in 1..Len(t) : t[k] \in Whitespace
                      THEN (CHOOSE k \in 1..Len(t) :
                               /\ t[k] \in Whitespace
                               /\ \A j \in 1..(k - 1) : t[j] \notin Whitespace) - 1
                      ELSE Len(t)
             IN  <<SubSeq(t, 1, n)>> \o str_tokens(SubSeq(t, n + 1, Len(t)))

\* str.isdigit
str_isdigit(s) == s # <<>> /\ \A k \in 1..Len(s) : s[k] \in Digits

\* the code point order of the characters
CodePointOrder ==
    <<"\t", " ", "\"", "#", "(", ")", "+", ",", "-", ".", "/", "0", "1", ";">>
        \o UpperAZ \o <<"_">> \o LowerAZ \o <<"|">>
ord(c) == CHOOSE k \in DOMAIN CodePointOrder : CodePointOrder[k] = c

\* s < t for two str
RECURSIVE str_less(_, _)
str_less(s, t) ==
    IF t = <<>> THEN FALSE
    ELSE IF s = <<>> THEN TRUE
    ELSE IF Head(s) = Head(t) THEN str_less(Tail(s), Tail(t))
    ELSE ord(Head(s)) < ord(Head(t))

\* sorted(S) for a set of str
RECURSIVE sorted(_)
sorted(S) ==
    IF S = {} THEN <<>>
    ELSE LET least == CHOOSE x \in S : \A y \in S : x = y \/ str_less(x, y)
         IN  <<least>> \o sorted(S \ {least})

\* sep.join(list)
RECURSIVE str_join(_, _)
str_join(sep, list) ==
    IF list = <<>> THEN <<>>
    ELSE IF Len(list) = 1 THEN list[1]
    ELSE list[1] \o sep \o str_join(sep, Tail(list))

\* all strings over alphabet of length at most n
RECURSIVE StringsUpTo(_, _)
StringsUpTo(alphabet, n) ==
    IF n = 0 THEN {<<>>}
    ELSE LET shorter == StringsUpTo(alphabet, n - 1)
         IN  shorter \cup {Append(s, c) : s \in shorter, c \in alphabet}

-----------------------------------------------------------------------------
(* Text Normalizer                                                          *)

\* the Normalizer without its digit-replacement step
normalize_value_keeps_digits(t) ==
    IF ~isinstance_str(t) THEN NaN
    ELSE LET lowered == str_lower(t)
             no_punct == sub_each(lowered, Chars \ (WordChars \cup Whitespace),
                                  <<" ">>)
             collapsed == sub_runs(no_punct, Whitespace, <<" ">>)
         IN  str_strip(collapsed)

\* the five Series.str steps on one value; .str leaves a non-str value nan
normalize_value(t) ==
    IF ~isinstance_str(t) THEN NaN
    ELSE LET lowered == str_lower(t)
             no_digits == sub_runs(lowered, Digits, <<" ">>)
             no_punct == sub_each(no_digits, Chars \ (WordChars \cup Whitespace),
                                  <<" ">>)
             collapsed == sub_runs(no_punct, Whitespace, <<" ">>)
         IN  str_strip(collapsed)

\* Series.str raises AttributeError on a column that holds no str at all
str_accessor_fails(column) ==
    /\ column # <<>>
    /\ \A k \in 1..Len(column) : ~isinstance_str(column[k])

NormalizeCell ==
    /\ pc = "normalize"
    /\ IF str_accessor_fails(Text)
       THEN /\ pc' = "failed"
            /\ error' = "AttributeError"
            /\ UNCHANGED Text_Clean
       ELSE /\ pc' = "save_cleaned"
            /\ Text_Clean' = [k \in 1..Len(Text) |-> normalize_value(Text[k])]
            /\ UNCHANGED error
    /\ UNCHANGED <<Category, Text, resumeAtlas_cleaned, extractVars, mapVars,
                   evalVars, kgVars, kgStageVars, resolverVars>>

-----------------------------------------------------------------------------
(* Files: DataFrame.to_csv and pd.read_csv                                  *)

\* to_csv writes a missing value as an empty field
to_csv_value(x) == IF isinstance_str(x) THEN x ELSE <<>>
\* read_csv reads an empty field as a missing value
read_csv_value(field) == IF field = <<>> THEN NaN ELSE field

NoFile == [exists |-> FALSE, rows |-> <<>>]

Max(S) == CHOOSE x \in S : \A y \in S : y <= x
Min(S) == CHOOSE x \in S : \A y \in S : x <= y

\* df.to_csv("resumeAtlas_cleaned.csv", index=False)
SaveCleaned ==
    /\ pc = "save_cleaned"
    /\ resumeAtlas_cleaned' =
           [exists |-> TRUE,
            rows |-> [k \in 1..Len(Text) |->
                         [Category |-> to_csv_value(Category[k]),
                          Text |-> to_csv_value(Text[k]),
                          Text_Clean |-> to_csv_value(Text_Clean[k])]]]
    /\ pc' = "extract"
    /\ UNCHANGED <<error, frameVars, extractVars, mapVars, evalVars, kgVars,
                   kgStageVars, resolverVars>>

-----------------------------------------------------------------------------
(* Skill Extractor: extract_skills_llama3_sambanova and the extraction cell *)

Data_Science == <<"D", "a", "t", "a", " ", "S", "c", "i", "e", "n", "c", "e">>

None == <<"None">>

\* what a call returns, or the exception it raises
Returns(value) == [raises |-> "none", value |-> value]
Raises(name) == [raises |-> name, value |-> <<>>]

MAX_RESUME_CHARS_FOR_LLM == 4000

\* truncation that also marks a text of exactly the budget
resume_text_for_llm_at_budget(resume_text) ==
    IF Len(resume_text) >= MAX_RESUME_CHARS_FOR_LLM
    THEN SubSeq(resume_text, 1, MAX_RESUME_CHARS_FOR_LLM) \o <<".", ".", ".">>
    ELSE resume_text

\* resume_text[:MAX_RESUME_CHARS_FOR_LLM] + "..." of a longer text
resume_text_for_llm(resume_text) ==
    IF Len(resume_text) > MAX_RESUME_CHARS_FOR_LLM
    THEN SubSeq(resume_text, 1, MAX_RESUME_CHARS_FOR_LLM) \o <<".", ".", ".">>
    ELSE resume_text

\* the system prompt of the zero-shot configuration, as one token
ZeroShotSystemPrompt == <<"You are a professional resume parser. ...">>

\* "\n\nSkills:"
SkillsSuffix == <<"\n", "\n", "S", "k", "i", "l", "l", "s", ":">>

\* messages of extract_skills_llama3_sambanova
messages(resume_text) ==
    [system |-> ZeroShotSystemPrompt,
     user |-> resume_text_for_llm(resume_text) \o SkillsSuffix]

\* extract_skills_llama3_sambanova(resume_text), the remote call answering
\* with completion: len() of a float raises TypeError, an exception of
\* client.chat.completions.create is not caught
extract_skills_llama3_sambanova(resume_text, completion) ==
    IF ~isinstance_str(resume_text) THEN Raises("TypeError")
    ELSE IF completion.raises # "none" THEN completion
    ELSE Returns(completion.value)

\* df[df['Category'] == 'Data Science']
is_data_science(row) == read_csv_value(row.Category) = Data_Science

\* the completions the remote endpoint may answer with
RemoteCompletions ==
    {Returns(<<"a", "b", ",", " ", "b", "a">>), Returns(<<"A", "b">>),
     Raises("InferenceTimeoutError"), Raises("HfHubHTTPError"),
     Raises("IndexError")}

\* the rows for which progress_apply reached the remote call
called(calls) ==
    LET raising == {k \in DOMAIN calls : calls[k].raises # "none"}
    IN  IF raising = {} THEN Len(calls)
        ELSE IF calls[Min(raising)].raises = "TypeError" THEN Min(raising) - 1
        ELSE Min(raising)

\* the frame with the column attached in reversed row order
with_extracted_skills_raw_reversed(df, column) ==
    [k \in 1..Len(df) |->
        [Category |-> df[k].Category,
         Text |-> df[k].Text,
         Text_Clean |-> df[k].Text_Clean,
         extracted_skills_raw |-> to_csv_value(column[Len(df) + 1 - k])]]

\* the frame written without its last row
with_extracted_skills_raw_partial(df, column) ==
    [k \in 1..(Len(df) - 1) |->
        [Category |-> df[k].Category,
         Text |-> df[k].Text,
         Text_Clean |-> df[k].Text_Clean,
         extracted_skills_raw |-> to_csv_value(column[k])]]

\* df["extracted_skills_raw"] = column, as to_csv writes the frame
with_extracted_skills_raw(df, column) ==
    [k \in 1..Len(df) |->
        [Category |-> df[k].Category,
         Text |-> df[k].Text,
         Text_Clean |-> df[k].Text_Clean,
         extracted_skills_raw |-> to_csv_value(column[k])]]

\* a look-up of the secret that gives None for an absent secret
userdata_get_or_none(secret) == Returns(secret)

\* userdata.get('HF_TOKEN_L'): the secret, SecretNotFoundError when absent
userdata_get(secret) ==
    IF secret = None THEN Raises("SecretNotFoundError") ELSE Returns(secret)

\* the extraction cell: fetch the credential, read the cleaned file, keep the
\* Data Science rows, apply the extraction to the rows in order, write the
\* output file
ExtractCell ==
    /\ pc = "extract"
    /\ UNCHANGED HF_TOKEN_L
    /\ IF userdata_get(HF_TOKEN_L).raises # "none"
       THEN /\ pc' = "failed"
            /\ error' = userdata_get(HF_TOKEN_L).raises
            /\ UNCHANGED <<frameVars, requests, cursor, extracted_skills_raw,
                           extracted_skills_output>>
       ELSE IF ~resumeAtlas_cleaned.exists
       THEN /\ pc' = "failed"
            /\ error' = "FileNotFoundError"
            /\ UNCHANGED <<frameVars, requests, cursor, extracted_skills_raw,
                           extracted_skills_output>>
       ELSE LET df_resumes_for_extraction ==
                    SelectSeq(resumeAtlas_cleaned.rows, is_data_science)
                n == Len(df_resumes_for_extraction)
                text_clean == [k \in 1..n |->
                    read_csv_value(df_resumes_for_extraction[k].Text_Clean)]
            IN  /\ Category' = [k \in 1..n |->
                       read_csv_value(df_resumes_for_extraction[k].Category)]
                /\ Text' = [k \in 1..n |->
                       read_csv_value(df_resumes_for_extraction[k].Text)]
                /\ Text_Clean' = text_clean
                /\ \E completion \in [1..n -> RemoteCompletions] :
                     LET calls == [k \in 1..n |->
                                      extract_skills_llama3_sambanova(
                                          text_clean[k], completion[k])]
                         raising == {k \in 1..n : calls[k].raises # "none"}
                     IN  /\ requests' = [k \in 1..called(calls) |->
                                [messages |-> messages(text_clean[k]),
                                 completion |-> completion[k]]]
                         /\ IF raising # {}
                            THEN /\ pc' = "failed"
                                 /\ error' = calls[Min(raising)].raises
                                 /\ cursor' = Min(raising)
                                 /\ UNCHANGED <<extracted_skills_raw,
                                                extracted_skills_output>>
                            ELSE /\ extracted_skills_raw' =
                                        [k \in 1..n |-> calls[k].value]
                                 /\ cursor' = n
                                 /\ extracted_skills_output' =
                                      [exists |-> TRUE,
                                       rows |-> with_extracted_skills_raw(
                                           df_resumes_for_extraction,
                                           [k \in 1..n |-> calls[k].value])]
                                 /\ pc' = "map"
                                 /\ UNCHANGED error
    /\ UNCHANGED <<resumeAtlas_cleaned, mapVars, evalVars, kgVars,
                   kgStageVars, resolverVars>>

-----------------------------------------------------------------------------
(* Skill Extractor, LLM+KG: the ESCO hints, extract_skills_llama3_sambanova_kg *)
(* and its extraction cell                                                  *)

data_science_keywords ==
    <<<<"P", "y", "t", "h", "o", "n">>,
      <<"R">>,
      <<"S", "Q", "L">>,
      <<"P", "y", "S", "p", "a", "r", "k">>,
      <<"S", "c", "a", "l", "a">>,
      <<"J", "u", "l", "i", "a">>,
      <<"J", "u", "p", "y", "t", "e", "r", " ", "N", "o", "t", "e", "b", "o",
        "o", "k">>,
      <<"G", "o", "o", "g", "l", "e", " ", "C", "o", "l", "a", "b">>,
      <<"R", "S", "t", "u", "d", "i", "o">>,
      <<"P", "a", "n", "d", "a", "s">>,
      <<"N", "u", "m", "P", "y">>,
      <<"P", "o", "l", "a", "r", "s">>,
      <<"D", "a", "s", "k">>,
      <<"A", "p", "a", "c", "h", "e", " ", "A", "r", "r", "o", "w">>,
      <<"P", "y", "A", "r", "r", "o", "w">>,
      <<"S", "Q", "L", "A", "l", "c", "h", "e", "m", "y">>,
      <<"p", "s", "y", "c", "o", "p", "g", "2">>,
      <<"S", "c", "i", "k", "i", "t", "-", "l", "e", "a", "r", "n">>,
      <<"T", "e", "n", "s", "o", "r", "F", "l", "o", "w">>,
      <<"P", "y", "T", "o", "r", "c", "h">>,
      <<"K", "e", "r", "a", "s">>,
      <<"X", "G", "B", "o", "o", "s", "t">>,
      <<"L", "i", "g", "h", "t", "G", "B", "M">>,
      <<"C", "a", "t", "B", "o", "o", "s", "t">>,
      <<"H", "u", "g", "g", "i", "n", "g", " ", "F", "a", "c", "e">>,
      <<"s", "p", "a", "C", "y">>,
      <<"N", "L", "T", "K">>,
      <<"A", "p", "a", "c", "h", "e", " ", "S", "p", "a", "r", "k">>,
      <<"H", "a", "d", "o", "o", "p">>,
      <<"D", "a", "t", "a", "b", "r", "i", "c", "k", "s">>,
      <<"S", "n", "o", "w", "f", "l", "a", "k", "e">>,
      <<"A", "W", "S", " ", "S", "a", "g", "e", "M", "a", "k", "e", "r">>,
      <<"A", "z", "u", "r", "e", " ", "M", "L">>,
      <<"G", "C", "P", " ", "V", "e", "r", "t", "e", "x", " ", "A", "I">>,
      <<"B", "i", "g", "Q", "u", "e", "r", "y">>,
      <<"R", "e", "d", "s", "h", "i", "f", "t">>,
      <<"D", "e", "l", "t", "a", " ", "L", "a", "k", "e">>,
      <<"A", "p", "a", "c", "h", "e", " ", "K", "a", "f", "k", "a">>,
      <<"M", "a", "t", "p", "l", "o", "t", "l", "i", "b">>,
      <<"S", "e", "a", "b", "o", "r", "n">>,
      <<"P", "l", "o", "t", "l", "y">>,
      <<"D", "a", "s", "h">>,
      <<"S", "t", "r", "e", "a", "m", "l", "i", "t">>,
      <<"T", "a", "b", "l", "e", "a", "u">>,
      <<"P", "o", "w", "e", "r", " ", "B", "I">>,
      <<"L", "o", "o", "k", "e", "r">>,
      <<"M", "e", "t", "a", "b", "a", "s", "e">>,
      <<"M", "L", "f", "l", "o", "w">>,
      <<"K", "u", "b", "e", "f", "l", "o", "w">>,
      <<"A", "i", "r", "f", "l", "o", "w">>,
      <<"P", "r", "e", "f", "e", "c", "t">>,
      <<"D", "o", "c", "k", "e", "r">>,
      <<"K", "u", "b", "e", "r", "n", "e", "t", "e", "s">>,
      <<"F", "a", "s", "t", "A", "P", "I">>,
      <<"F", "l", "a", "s", "k">>,
      <<"T", "F", " ", "S", "e", "r", "v", "i", "n", "g">>,
      <<"D", "e", "e", "p", " ", "L", "e", "a", "r", "n", "i", "n", "g">>,
      <<"C", "o", "m", "p", "u", "t", "e", "r", " ", "V", "i", "s", "i", "o",
        "n">>,
      <<"N", "L", "P">>,
      <<"L", "L", "M", "s">>,
      <<"T", "i", "m", "e", " ", "S", "e", "r", "i", "e", "s", " ", "A", "n",
        "a", "l", "y", "s", "i", "s">>,
      <<"S", "u", "r", "v", "i", "v", "a", "l", " ", "A", "n", "a", "l", "y",
        "s", "i", "s">>,
      <<"R", "e", "i", "n", "f", "o", "r", "c", "e", "m", "e", "n", "t", " ",
        "L", "e", "a", "r", "n", "i", "n", "g">>,
      <<"G", "e", "n", "e", "r", "a", "t", "i", "v", "e", " ", "A", "I">>,
      <<"G", "r", "a", "p", "h", " ", "N", "e", "u", "r", "a", "l", " ", "N",
        "e", "t", "w", "o", "r", "k", "s">>,
      <<"E", "T", "L">>,
      <<"E", "L", "T">>,
      <<"D", "a", "t", "a", " ", "P", "i", "p", "e", "l", "i", "n", "e",
        "s">>,
      <<"D", "a", "t", "a", " ", "W", "a", "r", "e", "h", "o", "u", "s", "i",
        "n", "g">>,
      <<"D", "a", "t", "a", " ", "M", "o", "d", "e", "l", "i", "n", "g">>,
      <<"d", "b", "t">>,
      <<"A", "i", "r", "b", "y", "t", "e">>,
      <<"F", "i", "v", "e", "t", "r", "a", "n">>,
      <<"S", "t", "a", "t", "i", "s", "t", "i", "c", "a", "l", " ", "M", "o",
        "d", "e", "l", "i", "n", "g">>,
      <<"B", "a", "y", "e", "s", "i", "a", "n", " ", "S", "t", "a", "t", "i",
        "s", "t", "i", "c", "s">>,
      <<"E", "x", "p", "e", "r", "i", "m", "e", "n", "t", "a", "l", " ", "D",
        "e", "s", "i", "g", "n">>,
      <<"C", "a", "u", "s", "a", "l", " ", "I", "n", "f", "e", "r", "e", "n",
        "c", "e">>,
      <<"O", "p", "t", "i", "m", "i", "z", "a", "t", "i", "o", "n">>,
      <<"L", "i", "n", "e", "a", "r", " ", "A", "l", "g", "e", "b", "r",
        "a">>,
      <<"F", "r", "a", "u", "d", " ", "D", "e", "t", "e", "c", "t", "i", "o",
        "n">>,
      <<"R", "e", "c", "o", "m", "m", "e", "n", "d", "a", "t", "i", "o", "n",
        " ", "S", "y", "s", "t", "e", "m", "s">>,
      <<"F", "o", "r", "e", "c", "a", "s", "t", "i", "n", "g">>,
      <<"A", "n", "o", "m", "a", "l", "y", " ", "D", "e", "t", "e", "c", "t",
        "i", "o", "n">>,
      <<"C", "u", "s", "t", "o", "m", "e", "r", " ", "S", "e", "g", "m", "e",
        "n", "t", "a", "t", "i", "o", "n">>,
      <<"A", "/", "B", " ", "T", "e", "s", "t", "i", "n", "g">>>>

\* s contains sub
str_contains(s, sub) ==
    \E i \in 1..(Len(s) - Len(sub) + 1) : SubSeq(s, i, i + Len(sub) - 1) = sub

\* Series.str.contains(pattern, case=False, na=False, regex=True), pattern
\* the escaped keywords joined by '|'
contains_pattern(x) ==
    /\ isinstance_str(x)
    /\ \E k \in DOMAIN data_science_keywords :
           str_contains(str_lower(x), str_lower(data_science_keywords[k]))

\* Series.astype(str) on one value
astype_str(x) == IF isinstance_str(x) THEN x ELSE <<"n", "a", "n">>

is_ce_related(row) ==
    contains_pattern(row.preferredLabel)
        \/ contains_pattern(astype_str(row.altLabels))

\* the whole ontology in place of its keyword-filtered rows
esco_df_unfiltered(esco_df_full) == esco_df_full

esco_df_ce_related(esco_df_full) == SelectSeq(esco_df_full, is_ce_related)

n_samples_for_prompt == 50

\* the positions Series.sample(n=num_to_sample, random_state=42) draws from
\* num_available rows: distinct positions fixed by the seed, one of the
\* strided walks over the rows standing for the seed's draw
sample_positions(num_available, num_to_sample) ==
    CHOOSE draw \in {[i \in 1..num_to_sample |->
                         ((i * stride) % num_available) + 1] :
                        stride \in 1..num_available} :
        \A i, j \in 1..num_to_sample : draw[i] = draw[j] => i = j

esco_sample_skills(esco_df_full) ==
    LET related == esco_df_ce_related(esco_df_full)
        num_available == Len(related)
        num_to_sample == IF n_samples_for_prompt < num_available
                         THEN n_samples_for_prompt ELSE num_available
    IN  IF num_available = 0 THEN <<>>
        ELSE [i \in 1..num_to_sample |->
                 related[sample_positions(num_available, num_to_sample)[i]]
                     .preferredLabel]

esco_skills_string(esco_df_full) ==
    str_join(<<",", " ">>, esco_sample_skills(esco_df_full))

\* the few-shot examples, as one token
few_shot_examples_ds == <<"Example 1: ... Example 2: ... Example 3: ...">>

\* 'Resume: "'
ResumePrefix == <<"R", "e", "s", "u", "m", "e", ":", " ", "\"">>

\* resume_text[:MAX_RESUME_CHARS_FOR_LLM] + "..." if len(resume_text) >
\* MAX_RESUME_CHARS_FOR_LLM else resume_text
resume_text_for_llm_kg(resume_text) ==
    IF Len(resume_text) > MAX_RESUME_CHARS_FOR_LLM
    THEN SubSeq(resume_text, 1, MAX_RESUME_CHARS_FOR_LLM) \o <<".", ".", ".">>
    ELSE resume_text

\* system_prompt_kg: the instructions, the examples and the hints in brackets
system_prompt_kg(esco_context_skills_str, few_shot_examples_str) ==
    <<"You are a professional resume parser. ... No extra words or introductory phrases.">>
        \o few_shot_examples_str
        \o <<"For guidance and inspiration, consider ... ESCO skills::", "[">>
        \o esco_context_skills_str \o <<"]", ".">>

\* messages of extract_skills_llama3_sambanova_kg
messages_kg(resume_text, esco_context_skills_str, few_shot_examples_str) ==
    [system |-> system_prompt_kg(esco_context_skills_str, few_shot_examples_str),
     user |-> ResumePrefix \o resume_text_for_llm_kg(resume_text) \o <<"\"">>
                  \o SkillsSuffix]

extract_skills_llama3_sambanova_kg(resume_text, completion) ==
    IF ~isinstance_str(resume_text) THEN Raises("TypeError")
    ELSE IF completion.raises # "none" THEN completion
    ELSE Returns(completion.value)

\* the LLM+KG extraction cell: read the cleaned file and the ontology, keep
\* the Data Science rows, build the hints, apply the extraction to the rows
\* in order with the client of the LLM-only cell, write the output file
ExtractCellKG ==
    /\ pc = "extract_kg"
    /\ IF ~resumeAtlas_cleaned.exists
       THEN /\ pc' = "failed"
            /\ error' = "FileNotFoundError"
            /\ UNCHANGED <<frameVars, requests, cursor, kgVars>>
       ELSE LET df_resumes_for_extraction ==
                    SelectSeq(resumeAtlas_cleaned.rows, is_data_science)
                n == Len(df_resumes_for_extraction)
                text_clean == [k \in 1..n |->
                    read_csv_value(df_resumes_for_extraction[k].Text_Clean)]
                hints == esco_skills_string(esco_df)
            IN  /\ Category' = [k \in 1..n |->
                       read_csv_value(df_resumes_for_extraction[k].Category)]
                /\ Text' = [k \in 1..n |->
                       read_csv_value(df_resumes_for_extraction[k].Text)]
                /\ Text_Clean' = text_clean
                /\ \E completion \in [1..n -> RemoteCompletions] :
                     LET calls == [k \in 1..n |->
                                      extract_skills_llama3_sambanova_kg(
                                          text_clean[k], completion[k])]
                         raising == {k \in 1..n : calls[k].raises # "none"}
                     IN  /\ requests' = [k \in 1..called(calls) |->
                                [messages |-> messages_kg(text_clean[k], hints,
                                                  few_shot_examples_ds),
                                 completion |-> completion[k]]]
                         /\ IF raising # {}
                            THEN /\ pc' = "failed"
                                 /\ error' = calls[Min(raising)].raises
                                 /\ cursor' = Min(raising)
                                 /\ UNCHANGED kgVars
                            ELSE /\ extracted_skills_raw_kg' =
                                        [k \in 1..n |-> calls[k].value]
                                 /\ cursor' = n
                                 /\ extracted_skills_kg_output' =
                                      [exists |-> TRUE,
                                       rows |-> [k \in 1..n |->
                                         [Category |->
                                            df_resumes_for_extraction[k].Category,
                                          Text |->
                                            df_resumes_for_extraction[k].Text,
                                          Text_Clean |->
                                            df_resumes_for_extraction[k].Text_Clean,
                                          extracted_skills_raw_kg |->
                                            to_csv_value(calls[k].value)]]]
                                 /\ pc' = "map_kg"
                                 /\ UNCHANGED error
    /\ UNCHANGED <<resumeAtlas_cleaned, HF_TOKEN_L, extracted_skills_raw,
                   extracted_skills_output, mapVars, evalVars, kgStageVars,
                   resolverVars>>

-----------------------------------------------------------------------------
(* Ontology Mapper: clean_extracted_skills                                  *)

\* re.split(r',\s*|\s*,\s*', text): split at each comma, the whitespace on
\* both sides of the comma being part of the separator
re_split_commas(text) ==
    LET pieces == str_split(text, ",")
    IN  [j \in 1..Len(pieces) |->
            LET left == IF j > 1 THEN lstrip(pieces[j]) ELSE pieces[j]
            IN  IF j < Len(pieces) THEN rstrip(left) ELSE left]

\* the characters the pattern [^a-z0-9\s\.\+#-]+ keeps
PhraseChars == LowerLetters \cup Digits \cup Whitespace \cup {".", "+", "#", "-"}

\* the exception a call raised, as a result no set of phrases equals
Raise(name) == {<<name>>}

\* the body of clean_extracted_skills below its guard
clean_phrases(text) ==
    LET lowered == str_replace(
                       str_replace(str_lower(text), <<";">>, <<",">>),
                       <<" ", "a", "n", "d", " ">>, <<",", " ">>)
        raw_skill_candidates == re_split_commas(lowered)
        kept == {j \in 1..Len(raw_skill_candidates) :
                    LET t == str_strip(raw_skill_candidates[j])
                    IN  t # <<>> /\ Len(t) > 1 /\ ~str_isdigit(t)}
    IN  {str_strip(sub_runs(raw_skill_candidates[j], Chars \ PhraseChars,
                            <<>>)) : j \in kept}

\* clean_extracted_skills without its guard: text.lower() of a float raises
clean_extracted_skills_unguarded(text) ==
    IF ~isinstance_str(text) THEN Raise("AttributeError")
    ELSE clean_phrases(text)

clean_extracted_skills(text) ==
    IF ~isinstance_str(text) \/ str_strip(text) = <<>> THEN {}
    ELSE clean_phrases(text)

-----------------------------------------------------------------------------
(* Ontology Mapper: the ESCO lookups                                        *)

\* esco_df['preferredLabel'].str.lower().tolist()
esco_preferred_lower_list(df) ==
    [j \in 1..Len(df) |-> str_lower(df[j].preferredLabel)]

\* {label.lower(): label for label in esco_df['preferredLabel'].unique()}:
\* unique() keeps first occurrences in row order, a later label of the same
\* key replaces an earlier one
pref_map(df) ==
    LET first == {j \in 1..Len(df) :
                    \A i \in 1..(j - 1) :
                        df[i].preferredLabel # df[j].preferredLabel}
    IN  [key \in {str_lower(df[j].preferredLabel) : j \in 1..Len(df)} |->
            df[Max({j \in first : str_lower(df[j].preferredLabel) = key})]
                .preferredLabel]

\* the keys one row adds to alt_map
alt_keys(row) ==
    IF ~isinstance_str(row.altLabels) THEN {}
    ELSE {str_strip(alt) :
            alt \in Range(str_split(
                       str_replace(str_lower(row.altLabels), <<"\"">>, <<>>),
                       "|"))} \ {<<>>}

\* alt_map with each alternate mapped to itself, not to its row's label
alt_map_to_alternate(df) ==
    [key \in UNION {alt_keys(df[j]) : j \in 1..Len(df)} |-> key]

\* alt_map: rows in order, a later row of the same key replaces an earlier
alt_map(df) ==
    [key \in UNION {alt_keys(df[j]) : j \in 1..Len(df)} |->
        df[Max({j \in 1..Len(df) : key \in alt_keys(df[j])})].preferredLabel]

-----------------------------------------------------------------------------
(* fuzzywuzzy: process.extractOne with scorer fuzz.token_set_ratio, on the  *)
(* python-Levenshtein matcher the notebook installs                         *)

\* utils.full_process: non-word characters to spaces, lower, strip
full_process(s) == str_strip(str_lower(sub_each(s, Chars \ WordChars, <<" ">>)))

\* one row of the longest-common-subsequence table
RECURSIVE lcs_fill(_, _, _, _)
lcs_fill(c, t, prev, row) ==
    IF Len(row) = Len(t) + 1 THEN row
    ELSE LET j == Len(row)
             cell == IF c = t[j] THEN prev[j] + 1
                     ELSE IF prev[j + 1] >= row[j] THEN prev[j + 1] ELSE row[j]
         IN  lcs_fill(c, t, prev, Append(row, cell))

RECURSIVE lcs_rows(_, _, _)
lcs_rows(s, t, prev) ==
    IF s = <<>> THEN prev[Len(t) + 1]
    ELSE lcs_rows(Tail(s), t, lcs_fill(Head(s), t, prev, <<0>>))

lcs_length(s, t) == lcs_rows(s, t, [j \in 1..(Len(t) + 1) |-> 0])

\* utils.intr: int(round(n / d)), Python 3 rounding half to even
intr(n, d) ==
    LET q == n \div d
        rem == n % d
    IN  IF 2 * rem < d THEN q
        ELSE IF 2 * rem > d THEN q + 1
        ELSE IF q % 2 = 0 THEN q ELSE q + 1

\* fuzz.ratio: 100 * Levenshtein.ratio = 100 * 2 * lcs / (len1 + len2)
ratio(s1, s2) ==
    IF s1 = s2 THEN 100
    ELSE IF s1 = <<>> \/ s2 = <<>> THEN 0
    ELSE intr(200 * lcs_length(s1, s2), Len(s1) + Len(s2))

\* " ".join(sorted(tokens))
sorted_join(tokens) == str_join(<<" ">>, sorted(tokens))

\* (sorted_sect + " " + sorted_rest).strip()
combined(sorted_sect, sorted_rest) == str_strip(sorted_sect \o <<" ">> \o sorted_rest)

\* max of the pairwise ratios
pairwise(sect, combined_1to2, combined_2to1) ==
    Max({ratio(sect, combined_1to2), ratio(sect, combined_2to1),
         ratio(combined_1to2, combined_2to1)})

\* the comparison of the two token sets
token_sets(tokens1, tokens2) ==
    pairwise(str_strip(sorted_join(tokens1 \cap tokens2)),
             combined(sorted_join(tokens1 \cap tokens2), sorted_join(tokens1 \ tokens2)),
             combined(sorted_join(tokens1 \cap tokens2), sorted_join(tokens2 \ tokens1)))

\* fuzz.token_set_ratio(s1, s2, full_process=False)
token_set_ratio(s1, s2) ==
    IF s1 = s2 THEN 100
    ELSE IF s1 = <<>> \/ s2 = <<>> THEN 0
    ELSE token_sets(Range(str_tokens(s1)), Range(str_tokens(s2)))

\* the score extractOne gives a choice for a query
fuzzy_score(query, choice) ==
    token_set_ratio(full_process(query), full_process(choice))

\* the first position of the highest score
best_position(score) ==
    CHOOSE j \in DOMAIN score :
        \A i \in DOMAIN score :
            score[i] < score[j] \/ (score[i] = score[j] /\ j <= i)

\* the choice at a position, with its score
choice_at(choices, score, best) ==
    [found |-> TRUE, choice |-> choices[best], score |-> score[best]]

best_choice(choices, score) == choice_at(choices, score, best_position(score))

\* process.extractOne(query, choices, scorer=fuzz.token_set_ratio): the first
\* choice of the highest score, nothing for an empty list
extractOne(query, choices) ==
    IF choices = <<>> THEN [found |-> FALSE, choice |-> <<>>, score |-> 0]
    ELSE best_choice(choices,
                     [j \in 1..Len(choices) |-> fuzzy_score(query, choices[j])])

-----------------------------------------------------------------------------
(* Ontology Mapper: map_to_esco and the mapping cell                        *)

ACCEPT_SCORE == 60

\* esco_df[esco_df['preferredLabel'].str.lower() == choice]: the label of
\* the first such row, None when there is none
original_label(choice) ==
    LET original_label_row ==
            {j \in 1..Len(esco_df) : str_lower(esco_df[j].preferredLabel) = choice}
    IN  IF original_label_row # {}
        THEN esco_df[Min(original_label_row)].preferredLabel
        ELSE None

\* "if fuzzy_match_result and fuzzy_match_result[1] >= 60": the original
\* label of an accepted match
accepted_label(fuzzy_match_result, threshold) ==
    IF fuzzy_match_result.found /\ fuzzy_match_result.score >= threshold
    THEN original_label(fuzzy_match_result.choice)
    ELSE None

\* the fuzzy branch accepting only scores above the threshold
fuzzy_match_above(skill, esco_lower_list_ref) ==
    accepted_label(extractOne(skill, esco_lower_list_ref), ACCEPT_SCORE + 1)

\* the fuzzy branch of map_to_esco
fuzzy_match(skill, esco_lower_list_ref) ==
    accepted_label(extractOne(skill, esco_lower_list_ref), ACCEPT_SCORE)

\* map_to_esco looking up the alternate labels before the canonical ones
map_to_esco_alt_first(skill_name, pref_map_ref, alt_map_ref, esco_lower_list_ref) ==
    LET skill == str_strip(str_lower(skill_name))
    IN  IF skill = <<>> THEN [returns |-> None, fuzzy |-> FALSE]
        ELSE IF skill \in DOMAIN alt_map_ref
             THEN [returns |-> alt_map_ref[skill], fuzzy |-> FALSE]
        ELSE IF skill \in DOMAIN pref_map_ref
             THEN [returns |-> pref_map_ref[skill], fuzzy |-> FALSE]
        ELSE [returns |-> fuzzy_match(skill, esco_lower_list_ref),
              fuzzy |-> TRUE]

\* map_to_esco without its alternate-label lookup
map_to_esco_no_alt(skill_name, pref_map_ref, alt_map_ref, esco_lower_list_ref) ==
    LET skill == str_strip(str_lower(skill_name))
    IN  IF skill = <<>> THEN [returns |-> None, fuzzy |-> FALSE]
        ELSE IF skill \in DOMAIN pref_map_ref
             THEN [returns |-> pref_map_ref[skill], fuzzy |-> FALSE]
        ELSE [returns |-> fuzzy_match(skill, esco_lower_list_ref),
              fuzzy |-> TRUE]

\* map_to_esco: what it returns, and whether it called process.extractOne
map_to_esco(skill_name, pref_map_ref, alt_map_ref, esco_lower_list_ref) ==
    LET skill == str_strip(str_lower(skill_name))
    IN  IF skill = <<>> THEN [returns |-> None, fuzzy |-> FALSE]
        ELSE IF skill \in DOMAIN pref_map_ref
             THEN [returns |-> pref_map_ref[skill], fuzzy |-> FALSE]
        ELSE IF skill \in DOMAIN alt_map_ref
             THEN [returns |-> alt_map_ref[skill], fuzzy |-> FALSE]
        ELSE [returns |-> fuzzy_match(skill, esco_lower_list_ref),
              fuzzy |-> TRUE]

\* [map_to_esco(x, pref_map, alt_map, esco_preferred_lower_list) for x in s]
map_all(skill_set) ==
    LET pm == pref_map(esco_df)
        am == alt_map(esco_df)
        lower_list == esco_preferred_lower_list(esco_df)
    IN  [x \in skill_set |-> map_to_esco(x, pm, am, lower_list)]

\* n copies of item
RECURSIVE repeat(_, _)
repeat(item, n) == IF n = 0 THEN <<>> ELSE <<item>> \o repeat(item, n - 1)

RECURSIVE concat(_)
concat(lists) == IF lists = <<>> THEN <<>> ELSE Head(lists) \o concat(Tail(lists))

\* sorted(list(filter(None, results))): every truthy result, duplicates kept
sorted_results(results) ==
    LET labels == {results[x] : x \in DOMAIN results} \ {None, <<>>}
        order == sorted(labels)
    IN  concat([j \in 1..Len(order) |->
                   repeat(order[j],
                          Cardinality({x \in DOMAIN results :
                                          results[x] = order[j]}))])

\* ", ".join(sorted(list(filter(None, [map_to_esco(x, ...) for x in s]))))
mapped_skills_str_of(results) == str_join(<<",", " ">>, sorted_results(results))

\* the mapping lambda on the set of one raw extraction: its mapped skill string
MappedStringOf(raw) ==
    mapped_skills_str_of(
        [x \in clean_extracted_skills(raw) |->
            map_all(clean_extracted_skills(raw))[x].returns])

MapCell ==
    /\ pc = "map"
    /\ IF ~extracted_skills_output.exists
       THEN /\ pc' = "failed"
            /\ error' = "FileNotFoundError"
            /\ UNCHANGED <<frameVars, extracted_skills_raw, extracted_skills_set,
                           fuzzy_queries, map_results, mapped_skills_str,
                           mapped_skills_output>>
       ELSE LET rows == extracted_skills_output.rows
                raw == [k \in 1..Len(rows) |->
                           read_csv_value(rows[k].extracted_skills_raw)]
                sets == [k \in 1..Len(rows) |-> clean_extracted_skills(raw[k])]
            IN  /\ Category' = [k \in 1..Len(rows) |->
                                   read_csv_value(rows[k].Category)]
                /\ Text' = [k \in 1..Len(rows) |-> read_csv_value(rows[k].Text)]
                /\ Text_Clean' = [k \in 1..Len(rows) |->
                                     read_csv_value(rows[k].Text_Clean)]
                /\ extracted_skills_raw' = raw
                /\ IF \E k \in 1..Len(rows) : sets[k] = Raise("AttributeError")
                   THEN /\ pc' = "failed"
                        /\ error' = "AttributeError"
                        /\ UNCHANGED <<extracted_skills_set, fuzzy_queries,
                                       map_results, mapped_skills_str,
                                       mapped_skills_output>>
                   ELSE LET calls == [k \in 1..Len(rows) |-> map_all(sets[k])]
                            results == [k \in 1..Len(rows) |->
                                           [x \in sets[k] |->
                                               calls[k][x].returns]]
                            strs == [k \in 1..Len(rows) |->
                                        mapped_skills_str_of(results[k])]
                        IN  /\ extracted_skills_set' = sets
                            /\ fuzzy_queries' =
                                   [k \in 1..Len(rows) |->
                                       {x \in sets[k] : calls[k][x].fuzzy}]
                            /\ map_results' = results
                            /\ mapped_skills_str' = strs
                            /\ mapped_skills_output' =
                                   [exists |-> TRUE,
                                    rows |-> [k \in 1..Len(rows) |->
                                        [Category |-> rows[k].Category,
                                         Text_Clean |-> rows[k].Text_Clean,
                                         extracted_skills_raw |->
                                             rows[k].extracted_skills_raw,
                                         mapped_skills_str |-> strs[k]]]]
                            /\ pc' = "ground_truth"
                            /\ UNCHANGED error
    /\ UNCHANGED <<resumeAtlas_cleaned, HF_TOKEN_L, requests, cursor,
                   extracted_skills_output, esco_df,
                   evalVars, kgVars, kgStageVars, resolverVars>>

-----------------------------------------------------------------------------
(* Expected-Skills Resolver: the ground-truth cell and the merge cell       *)

Data_Scientist ==
    <<"D", "a", "t", "a", " ", "S", "c", "i", "e", "n", "t", "i", "s", "t">>
data_scientist == str_lower(Data_Scientist)
data_science == <<"d", "a", "t", "a", " ", "s", "c", "i", "e", "n", "c", "e">>

\* jobs: one job of category 'Data Scientist'
jobs == <<[job_id |-> 1, category |-> Data_Scientist]>>

\* Series.str.lower().str.strip() on one value
lower_strip(x) == IF isinstance_str(x) THEN str_strip(str_lower(x)) ELSE NaN

\* repr of a str: single quotes
str_repr(x) == <<"'">> \o x \o <<"'">>

\* str(list) of a list of str, as to_csv writes a list cell
list_str(list) ==
    <<"[">> \o str_join(<<",", " ">>, [k \in DOMAIN list |-> str_repr(list[k])])
        \o <<"]">>

\* the skills frame: conceptUri of a row of skills_en.csv is its position
skill_labels(skillUri) ==
    IF skillUri \in DOMAIN esco_df
           /\ isinstance_str(esco_df[skillUri].preferredLabel)
    THEN <<esco_df[skillUri].preferredLabel>>
    ELSE <<>>

\* the three left merges, dropna and agg(list) for one job: the skill labels
\* of the occupations whose normalized label is the job's normalized
\* category, in merge order
expected_esco_skills_of(job) ==
    LET norm_category == lower_strip(job.category)
        matching(occupation) ==
            lower_strip(occupation.preferredLabel) = norm_category
        related(occupation) ==
            concat([r \in DOMAIN occ_skill_rels |->
                       IF occ_skill_rels[r].occupationUri = occupation.conceptUri
                       THEN skill_labels(occ_skill_rels[r].skillUri)
                       ELSE <<>>])
        merged == SelectSeq(occupations, matching)
    IN  concat([o \in DOMAIN merged |-> related(merged[o])])

\* the ground-truth cell: resolve the job's category to its occupation and
\* the occupation's skills, write expected_esco_skills.csv
GroundTruthCell ==
    /\ pc = "ground_truth"
    /\ expected_esco_skills' =
           [exists |-> TRUE,
            rows |-> concat([j \in DOMAIN jobs |->
                        IF expected_esco_skills_of(jobs[j]) = <<>> THEN <<>>
                        ELSE <<[job_id |-> jobs[j].job_id,
                                category |-> jobs[j].category,
                                expected_esco_skills |->
                                    list_str(expected_esco_skills_of(jobs[j]))]>>])]
    /\ pc' = "merge"
    /\ UNCHANGED <<error, frameVars, resumeAtlas_cleaned, extractVars, mapVars,
                   evalVars, kgVars, kgStageVars, occupations, occ_skill_rels,
                   mapped_skills_with_expected_esco_for_ds>>

is_data_scientist(row) == lower_strip(read_csv_value(row.category)) = data_scientist

\* final_df had the lambda returned None for every category
final_row_without_expected(row, data_scientist_skills) ==
    [Category |-> to_csv_value(lower_strip(read_csv_value(row.Category))),
     expected_esco_skills |-> <<>>,
     extracted_skills_raw |-> row.extracted_skills_raw,
     mapped_skills_str |-> row.mapped_skills_str]

\* one row of final_df as to_csv writes it
final_row(row, data_scientist_skills) ==
    [Category |-> to_csv_value(lower_strip(read_csv_value(row.Category))),
     expected_esco_skills |->
         IF lower_strip(read_csv_value(row.Category)) = data_science
         THEN data_scientist_skills ELSE <<>>,
     extracted_skills_raw |-> row.extracted_skills_raw,
     mapped_skills_str |-> row.mapped_skills_str]

\* the merge cell: attach the expected skills of 'data scientist' to the
\* rows of category 'data science', write the merged file
MergeCell ==
    /\ pc = "merge"
    /\ IF ~mapped_skills_output.exists \/ ~expected_esco_skills.exists
       THEN /\ pc' = "failed"
            /\ error' = "FileNotFoundError"
            /\ UNCHANGED mapped_skills_with_expected_esco_for_ds
       ELSE IF str_accessor_fails([k \in DOMAIN mapped_skills_output.rows |->
                    read_csv_value(mapped_skills_output.rows[k].Category)])
       THEN /\ pc' = "failed"
            /\ error' = "AttributeError"
            /\ UNCHANGED mapped_skills_with_expected_esco_for_ds
       ELSE IF SelectSeq(expected_esco_skills.rows, is_data_scientist) = <<>>
       THEN /\ pc' = "failed"
            /\ error' = "IndexError"
            /\ UNCHANGED mapped_skills_with_expected_esco_for_ds
       ELSE /\ mapped_skills_with_expected_esco_for_ds' =
                   [exists |-> TRUE,
                    rows |-> [k \in DOMAIN mapped_skills_output.rows |->
                        final_row(mapped_skills_output.rows[k],
                                  SelectSeq(expected_esco_skills.rows,
                                            is_data_scientist)[1]
                                      .expected_esco_skills)]]
            /\ pc' = "evaluate"
            /\ UNCHANGED error
    /\ UNCHANGED <<frameVars, resumeAtlas_cleaned, extractVars, mapVars,
                   evalVars, kgVars, kgStageVars, occupations, occ_skill_rels,
                   expected_esco_skills>>

-----------------------------------------------------------------------------
(* ast.literal_eval on the texts the notebook hands it                      *)

\* s.split(sep) for a separator of several characters
RECURSIVE split_on(_, _, _)
split_on(s, sep, piece) ==
    IF Len(s) < Len(sep) THEN <<piece \o s>>
    ELSE IF SubSeq(s, 1, Len(sep)) = sep
         THEN <<piece>> \o split_on(SubSeq(s, Len(sep) + 1, Len(s)), sep, <<>>)
         ELSE split_on(Tail(s), sep, Append(piece, Head(s)))

\* s is the display of a list of str: [], or ['...', '...'] with no quote
\* or backslash inside an item
is_list_display(s) ==
    \/ s = <<"[", "]">>
    \/ /\ Len(s) >= 4
       /\ SubSeq(s, 1, 2) = <<"[", "'">>
       /\ SubSeq(s, Len(s) - 1, Len(s)) = <<"'", "]">>
       /\ \A piece \in Range(split_on(SubSeq(s, 3, Len(s) - 2),
                                      <<"'", ",", " ", "'">>, <<>>)) :
              \A k \in DOMAIN piece : piece[k] \notin {"'", "\\"}

list_display_items(s) ==
    IF s = <<"[", "]">> THEN <<>>
    ELSE split_on(SubSeq(s, 3, Len(s) - 2), <<"'", ",", " ", "'">>, <<>>)

\* s is a decimal integer literal, or several separated by commas (a tuple)
is_int_literal(s) ==
    /\ str_isdigit(s)
    /\ Len(s) = 1 \/ s[1] # "0" \/ \A k \in DOMAIN s : s[k] = "0"
is_int_tuple(s) ==
    LET items == str_split(s, ",")
    IN  /\ Len(items) >= 2
        /\ \A k \in 1..(Len(items) - 1) : is_int_literal(str_strip(items[k]))
        /\ \/ is_int_literal(str_strip(items[Len(items)]))
           \/ str_strip(items[Len(items)]) = <<>>

\* ast.literal_eval(s): the list or tuple s displays, an int, or the
\* exception raised for a text that is no literal (ValueError for names and
\* calls, SyntaxError for text that is no expression)
literal_eval(s) ==
    LET text == lstrip(s)
    IN  IF is_list_display(text)
        THEN [raises |-> "none", type |-> "list",
              value |-> list_display_items(text)]
        ELSE IF is_int_literal(str_strip(text))
        THEN [raises |-> "none", type |-> "int", value |-> <<str_strip(text)>>]
        ELSE IF is_int_tuple(text)
        THEN [raises |-> "none", type |-> "tuple",
              value |-> SelectSeq([k \in DOMAIN str_split(text, ",") |->
                                      str_strip(str_split(text, ",")[k])],
                                  is_int_literal)]
        ELSE [raises |-> "ValueError", type |-> "none", value |-> <<>>]

-----------------------------------------------------------------------------
(* Evaluator: calculate_metrics and the evaluation cell                     *)

RECURSIVE gcd(_, _)
gcd(a, b) == IF b = 0 THEN a ELSE gcd(b, a % b)

\* a Python number as a reduced fraction; den = 0 marks a raised
\* ZeroDivisionError, which every later operation passes on
Number(n, d) == LET g == gcd(n, d) IN [num |-> n \div g, den |-> d \div g]
int(n) == [num |-> n, den |-> 1]
ZeroDivisionError == [num |-> 0, den |-> 0]
raised(x) == x.den = 0

\* Python's a / b, a * b, a + b and a > 0
true_div(a, b) ==
    IF raised(a) \/ raised(b) \/ b.num = 0 THEN ZeroDivisionError
    ELSE Number(a.num * b.den, a.den * b.num)
mul(a, b) ==
    IF raised(a) \/ raised(b) THEN ZeroDivisionError
    ELSE Number(a.num * b.num, a.den * b.den)
add(a, b) ==
    IF raised(a) \/ raised(b) THEN ZeroDivisionError
    ELSE Number(a.num * b.den + b.num * a.den, a.den * b.den)
positive(a) == ~raised(a) /\ a.num > 0

\* calculate_metrics without its "if ... > 0 else 0" guards
calculate_metrics_unguarded(gt_set, pred_set) ==
    LET tp == Cardinality(pred_set \cap gt_set)
        fp == Cardinality(pred_set \ gt_set)
        fn == Cardinality(gt_set \ pred_set)
        precision == true_div(int(tp), int(tp + fp))
        recall == true_div(int(tp), int(tp + fn))
        f1 == true_div(mul(int(2), mul(precision, recall)),
                       add(precision, recall))
    IN  [precision |-> precision, recall |-> recall, f1_score |-> f1]

calculate_metrics(gt_set, pred_set) ==
    LET tp == Cardinality(pred_set \cap gt_set)
        fp == Cardinality(pred_set \ gt_set)
        fn == Cardinality(gt_set \ pred_set)
        precision == IF tp + fp > 0 THEN true_div(int(tp), int(tp + fp))
                     ELSE int(0)
        recall == IF tp + fn > 0 THEN true_div(int(tp), int(tp + fn))
                  ELSE int(0)
        f1 == IF positive(add(precision, recall))
              THEN true_div(mul(int(2), mul(precision, recall)),
                            add(precision, recall))
              ELSE int(0)
    IN  [precision |-> precision, recall |-> recall, f1_score |-> f1]

metrics_raised(m) == raised(m.precision) \/ raised(m.recall) \/ raised(m.f1_score)

\* the evaluation call with its two arguments swapped
evaluate_row_swapped(expected, mapped) == calculate_metrics(mapped, expected)

\* ce_df.apply(lambda r: calculate_metrics(r['expected_skills'],
\*                                          r['mapped_skills']), axis=1)
evaluate_row(expected, mapped) == calculate_metrics(expected, mapped)

\* the try block of parse_skills on what ast.literal_eval gave
parsed_set(skills_str, literal) ==
    IF literal.raises # "none"
    THEN {str_lower(str_strip(piece)) :
            piece \in Range(str_split(skills_str, ","))} \ {<<>>}
    ELSE IF literal.type = "int" THEN Raise("TypeError")
    ELSE {str_strip(str_lower(item)) : item \in Range(literal.value)}

\* parse_skills: nothing for a missing or blank value, the items of a
\* literal lower-cased and trimmed, the comma-separated pieces of a text
\* that is no literal; iterating an int raises TypeError
parse_skills(skills_str) ==
    IF ~isinstance_str(skills_str) \/ str_strip(skills_str) = <<>> THEN {}
    ELSE parsed_set(skills_str, literal_eval(skills_str))

\* df[df['Category'].str.lower() == 'data science']: the rows of ce_df
ce_rows_of(category) ==
    {k \in 1..Len(category) :
        isinstance_str(category[k]) /\ str_lower(category[k]) = data_science}

ce_rows == ce_rows_of(Category)

RECURSIVE sum(_, _)
sum(column, rows) ==
    IF rows = {} THEN int(0)
    ELSE add(column[Min(rows)], sum(column, rows \ {Min(rows)}))

\* Series.mean() of a column of ce_df
mean(column) == true_div(sum(column, DOMAIN column), int(Cardinality(DOMAIN column)))

\* the evaluation cell: read the merged file, parse both skill columns, score
\* the rows of category 'data science' and average the scores
EvaluateCell ==
    /\ pc = "evaluate"
    /\ IF ~mapped_skills_with_expected_esco_for_ds.exists
       THEN /\ pc' = "failed"
            /\ error' = "FileNotFoundError"
            /\ UNCHANGED <<Category, evalVars>>
       ELSE LET rows == mapped_skills_with_expected_esco_for_ds.rows
                category == [k \in DOMAIN rows |-> read_csv_value(rows[k].Category)]
                expected == [k \in DOMAIN rows |->
                    parse_skills(read_csv_value(rows[k].expected_esco_skills))]
                mapped == [k \in DOMAIN rows |->
                    parse_skills(read_csv_value(rows[k].mapped_skills_str))]
                result == [k \in ce_rows_of(category) |->
                              evaluate_row(expected[k], mapped[k])]
            IN  /\ Category' = category
                /\ IF \E k \in DOMAIN rows :
                          Raise("TypeError") \in {expected[k], mapped[k]}
                   THEN /\ pc' = "failed"
                        /\ error' = "TypeError"
                        /\ UNCHANGED evalVars
                   ELSE /\ expected_skills' = expected
                        /\ mapped_skills' = mapped
                        /\ IF str_accessor_fails(category)
                           THEN /\ pc' = "failed"
                                /\ error' = "AttributeError"
                                /\ UNCHANGED <<metrics, averages>>
                           ELSE IF \E k \in DOMAIN result :
                                      metrics_raised(result[k])
                           THEN /\ pc' = "failed"
                                /\ error' = "ZeroDivisionError"
                                /\ UNCHANGED <<metrics, averages>>
                           ELSE /\ pc' = "extract_kg"
                                /\ UNCHANGED error
                                /\ IF DOMAIN result = {}
                                   THEN UNCHANGED <<metrics, averages>>
                                   ELSE /\ metrics' = result
                                        /\ averages' =
                                             [precision |-> mean(
                                                 [k \in DOMAIN result |->
                                                     result[k].precision]),
                                              recall |-> mean(
                                                 [k \in DOMAIN result |->
                                                     result[k].recall]),
                                              f1_score |-> mean(
                                                 [k \in DOMAIN result |->
                                                     result[k].f1_score])]
    /\ UNCHANGED <<Text, Text_Clean, resumeAtlas_cleaned, extractVars, mapVars,
                   kgVars, kgStageVars, resolverVars>>

-----------------------------------------------------------------------------
(* The LLM+KG cells: mapping, merge and evaluation as those cells define    *)
(* them, on the files of the LLM+KG extraction                              *)

\* the body of clean_extracted_skills_kg below its guard
clean_phrases_kg(text) ==
    LET lowered == str_replace(
                       str_replace(str_lower(text), <<";">>, <<",">>),
                       <<" ", "a", "n", "d", " ">>, <<",", " ">>)
        raw_skill_candidates == re_split_commas(lowered)
        kept == {j \in 1..Len(raw_skill_candidates) :
                    LET t == str_strip(raw_skill_candidates[j])
                    IN  t # <<>> /\ Len(t) > 1 /\ ~str_isdigit(t)}
    IN  {str_strip(sub_runs(raw_skill_candidates[j], Chars \ PhraseChars,
                            <<>>)) : j \in kept}

clean_extracted_skills_kg(text) ==
    IF ~isinstance_str(text) \/ str_strip(text) = <<>> THEN {}
    ELSE clean_phrases_kg(text)

\* esco_df['preferredLabel'].str.lower().tolist()
esco_preferred_lower_list_kg(df) ==
    [j \in 1..Len(df) |-> str_lower(df[j].preferredLabel)]

\* {label.lower(): label for label in esco_df['preferredLabel'].unique()}:
\* unique() keeps first occurrences in row order, a later label of the same
\* key replaces an earlier one
pref_map_kg(df) ==
    LET first == {j \in 1..Len(df) :
                    \A i \in 1..(j - 1) :
                        df[i].preferredLabel # df[j].preferredLabel}
    IN  [key \in {str_lower(df[j].preferredLabel) : j \in 1..Len(df)} |->
            df[Max({j \in first : str_lower(df[j].preferredLabel) = key})]
                .preferredLabel]

\* the keys one row adds to alt_map_kg
alt_keys_kg(row) ==
    IF ~isinstance_str(row.altLabels) THEN {}
    ELSE {str_strip(alt) :
            alt \in Range(str_split(
                       str_replace(str_lower(row.altLabels), <<"\"">>, <<>>),
                       "|"))} \ {<<>>}

\* alt_map_kg: rows in order, a later row of the same key replaces an earlier
alt_map_kg(df) ==
    [key \in UNION {alt_keys_kg(df[j]) : j \in 1..Len(df)} |->
        df[Max({j \in 1..Len(df) : key \in alt_keys_kg(df[j])})].preferredLabel]

\* esco_df[esco_df['preferredLabel'].str.lower() == choice]: the label of
\* the first such row, None when there is none
original_label_kg(choice) ==
    LET original_label_row ==
            {j \in 1..Len(esco_df) : str_lower(esco_df[j].preferredLabel) = choice}
    IN  IF original_label_row # {}
        THEN esco_df[Min(original_label_row)].preferredLabel
        ELSE None

\* "if fuzzy_match_result and fuzzy_match_result[1] >= 60": the original
\* label of an accepted match
accepted_label_kg(fuzzy_match_result, threshold) ==
    IF fuzzy_match_result.found /\ fuzzy_match_result.score >= threshold
    THEN original_label_kg(fuzzy_match_result.choice)
    ELSE None

\* the fuzzy branch of map_to_esco_kg
fuzzy_match_kg(skill, esco_lower_list_ref) ==
    accepted_label_kg(extractOne(skill, esco_lower_list_ref), ACCEPT_SCORE)

\* map_to_esco_kg: what it returns, and whether it called process.extractOne
map_to_esco_kg(skill_name, pref_map_ref, alt_map_ref, esco_lower_list_ref) ==
    LET skill == str_strip(str_lower(skill_name))
    IN  IF skill = <<>> THEN [returns |-> None, fuzzy |-> FALSE]
        ELSE IF skill \in DOMAIN pref_map_ref
             THEN [returns |-> pref_map_ref[skill], fuzzy |-> FALSE]
        ELSE IF skill \in DOMAIN alt_map_ref
             THEN [returns |-> alt_map_ref[skill], fuzzy |-> FALSE]
        ELSE [returns |-> fuzzy_match_kg(skill, esco_lower_list_ref),
              fuzzy |-> TRUE]

\* [map_to_esco_kg(x, pref_map_kg, alt_map_kg, esco_preferred_lower_list_kg) for x in s]
map_all_kg(skill_set) ==
    LET pm == pref_map_kg(esco_df)
        am == alt_map_kg(esco_df)
        lower_list == esco_preferred_lower_list_kg(esco_df)
    IN  [x \in skill_set |-> map_to_esco_kg(x, pm, am, lower_list)]

\* ", ".join(sorted(list(filter(None, [map_to_esco_kg(x, ...) for x in s]))))
mapped_skills_str_of_kg(results) == str_join(<<",", " ">>, sorted_results(results))

MapCellKG ==
    /\ pc = "map_kg"
    /\ IF ~extracted_skills_kg_output.exists
       THEN /\ pc' = "failed"
            /\ error' = "FileNotFoundError"
            /\ UNCHANGED <<frameVars, extracted_skills_raw_kg, extracted_skills_set,
                           fuzzy_queries, map_results, mapped_skills_str,
                           mapped_skills_kg_output>>
       ELSE LET rows == extracted_skills_kg_output.rows
                raw == [k \in 1..Len(rows) |->
                           read_csv_value(rows[k].extracted_skills_raw_kg)]
                sets == [k \in 1..Len(rows) |-> clean_extracted_skills_kg(raw[k])]
            IN  /\ Category' = [k \in 1..Len(rows) |->
                                   read_csv_value(rows[k].Category)]
                /\ Text' = [k \in 1..Len(rows) |-> read_csv_value(rows[k].Text)]
                /\ Text_Clean' = [k \in 1..Len(rows) |->
                                     read_csv_value(rows[k].Text_Clean)]
                /\ extracted_skills_raw_kg' = raw
                /\ IF \E k \in 1..Len(rows) : sets[k] = Raise("AttributeError")
                   THEN /\ pc' = "failed"
                        /\ error' = "AttributeError"
                        /\ UNCHANGED <<extracted_skills_set, fuzzy_queries,
                                       map_results, mapped_skills_str,
                                       mapped_skills_kg_output>>
                   ELSE LET calls == [k \in 1..Len(rows) |-> map_all_kg(sets[k])]
                            results == [k \in 1..Len(rows) |->
                                           [x \in sets[k] |->
                                               calls[k][x].returns]]
                            strs == [k \in 1..Len(rows) |->
                                        mapped_skills_str_of_kg(results[k])]
                        IN  /\ extracted_skills_set' = sets
                            /\ fuzzy_queries' =
                                   [k \in 1..Len(rows) |->
                                       {x \in sets[k] : calls[k][x].fuzzy}]
                            /\ map_results' = results
                            /\ mapped_skills_str' = strs
                            /\ mapped_skills_kg_output' =
                                   [exists |-> TRUE,
                                    rows |-> [k \in 1..Len(rows) |->
                                        [Category |-> rows[k].Category,
                                         Text_Clean |-> rows[k].Text_Clean,
                                         extracted_skills_raw_kg |->
                                             rows[k].extracted_skills_raw_kg,
                                         mapped_skills_str |-> strs[k]]]]
                            /\ pc' = "merge_kg"
                            /\ UNCHANGED error
    /\ UNCHANGED <<resumeAtlas_cleaned, extractVars, esco_df,
                   mapped_skills_output, evalVars, extracted_skills_kg_output,
                   mapped_skills_kg_with_expected_esco_for_ds, resolverVars>>

\* one row of final_df as to_csv writes it
final_row_kg(row, data_scientist_skills) ==
    [Category |-> to_csv_value(lower_strip(read_csv_value(row.Category))),
     expected_esco_skills |->
         IF lower_strip(read_csv_value(row.Category)) = data_science
         THEN data_scientist_skills ELSE <<>>,
     extracted_skills_raw_kg |-> row.extracted_skills_raw_kg,
     mapped_skills_str |-> row.mapped_skills_str]

\* the merge cell: attach the expected skills of 'data scientist' to the
\* rows of category 'data science', write the merged file
MergeCellKG ==
    /\ pc = "merge_kg"
    /\ IF ~mapped_skills_kg_output.exists \/ ~expected_esco_skills.exists
       THEN /\ pc' = "failed"
            /\ error' = "FileNotFoundError"
            /\ UNCHANGED mapped_skills_kg_with_expected_esco_for_ds
       ELSE IF str_accessor_fails([k \in DOMAIN mapped_skills_kg_output.rows |->
                    read_csv_value(mapped_skills_kg_output.rows[k].Category)])
       THEN /\ pc' = "failed"
            /\ error' = "AttributeError"
            /\ UNCHANGED mapped_skills_kg_with_expected_esco_for_ds
       ELSE IF SelectSeq(expected_esco_skills.rows, is_data_scientist) = <<>>
       THEN /\ pc' = "failed"
            /\ error' = "IndexError"
            /\ UNCHANGED mapped_skills_kg_with_expected_esco_for_ds
       ELSE /\ mapped_skills_kg_with_expected_esco_for_ds' =
                   [exists |-> TRUE,
                    rows |-> [k \in DOMAIN mapped_skills_kg_output.rows |->
                        final_row_kg(mapped_skills_kg_output.rows[k],
                                  SelectSeq(expected_esco_skills.rows,
                                            is_data_scientist)[1]
                                      .expected_esco_skills)]]
            /\ pc' = "evaluate_kg"
            /\ UNCHANGED error
    /\ UNCHANGED <<frameVars, resumeAtlas_cleaned, extractVars, mapVars,
                   evalVars, kgVars, mapped_skills_kg_output, resolverVars>>

\* the try block of parse_skills_kg on what ast.literal_eval gave
parsed_set_kg(skills_str, literal) ==
    IF literal.raises # "none"
    THEN {str_lower(str_strip(piece)) :
            piece \in Range(str_split(skills_str, ","))} \ {<<>>}
    ELSE IF literal.type = "int" THEN Raise("TypeError")
    ELSE {str_strip(str_lower(item)) : item \in Range(literal.value)}

\* parse_skills_kg: nothing for a missing or blank value, the items of a
\* literal lower-cased and trimmed, the comma-separated pieces of a text
\* that is no literal; iterating an int raises TypeError
parse_skills_kg(skills_str) ==
    IF ~isinstance_str(skills_str) \/ str_strip(skills_str) = <<>> THEN {}
    ELSE parsed_set_kg(skills_str, literal_eval(skills_str))

calculate_metrics_kg(gt_set, pred_set) ==
    LET tp == Cardinality(pred_set \cap gt_set)
        fp == Cardinality(pred_set \ gt_set)
        fn == Cardinality(gt_set \ pred_set)
        precision == IF tp + fp > 0 THEN true_div(int(tp), int(tp + fp))
                     ELSE int(0)
        recall == IF tp + fn > 0 THEN true_div(int(tp), int(tp + fn))
                  ELSE int(0)
        f1 == IF positive(add(precision, recall))
              THEN true_div(mul(int(2), mul(precision, recall)),
                            add(precision, recall))
              ELSE int(0)
    IN  [precision |-> precision, recall |-> recall, f1_score |-> f1]

\* ce_df.apply(lambda r: calculate_metrics_kg(r['expected_skills'],
\*                                          r['mapped_skills']), axis=1)
evaluate_row_kg(expected, mapped) == calculate_metrics_kg(expected, mapped)

\* df[df['Category'].str.lower() == 'data science']: the rows of ce_df
ce_rows_of_kg(category) ==
    {k \in 1..Len(category) :
        isinstance_str(category[k]) /\ str_lower(category[k]) = data_science}

\* the evaluation cell: read the merged file, parse both skill columns, score
\* the rows of category 'data science' and average the scores
EvaluateCellKG ==
    /\ pc = "evaluate_kg"
    /\ IF ~mapped_skills_kg_with_expected_esco_for_ds.exists
       THEN /\ pc' = "failed"
            /\ error' = "FileNotFoundError"
            /\ UNCHANGED <<Category, evalVars>>
       ELSE LET rows == mapped_skills_kg_with_expected_esco_for_ds.rows
                category == [k \in DOMAIN rows |-> read_csv_value(rows[k].Category)]
                expected == [k \in DOMAIN rows |->
                    parse_skills_kg(read_csv_value(rows[k].expected_esco_skills))]
                mapped == [k \in DOMAIN rows |->
                    parse_skills_kg(read_csv_value(rows[k].mapped_skills_str))]
                result == [k \in ce_rows_of_kg(category) |->
                              evaluate_row_kg(expected[k], mapped[k])]
            IN  /\ Category' = category
                /\ IF \E k \in DOMAIN rows :
                          Raise("TypeError") \in {expected[k], mapped[k]}
                   THEN /\ pc' = "failed"
                        /\ error' = "TypeError"
                        /\ UNCHANGED evalVars
                   ELSE /\ expected_skills' = expected
                        /\ mapped_skills' = mapped
                        /\ IF str_accessor_fails(category)
                           THEN /\ pc' = "failed"
                                /\ error' = "AttributeError"
                                /\ UNCHANGED <<metrics, averages>>
                           ELSE IF \E k \in DOMAIN result :
                                      metrics_raised(result[k])
                           THEN /\ pc' = "failed"
                                /\ error' = "ZeroDivisionError"
                                /\ UNCHANGED <<metrics, averages>>
                           ELSE /\ pc' = "evaluated_kg"
                                /\ UNCHANGED error
                                /\ IF DOMAIN result = {}
                                   THEN UNCHANGED <<metrics, averages>>
                                   ELSE /\ metrics' = result
                                        /\ averages' =
                                             [precision |-> mean(
                                                 [k \in DOMAIN result |->
                                                     result[k].precision]),
                                              recall |-> mean(
                                                 [k \in DOMAIN result |->
                                                     result[k].recall]),
                                              f1_score |-> mean(
                                                 [k \in DOMAIN result |->
                                                     result[k].f1_score])]
    /\ UNCHANGED <<Text, Text_Clean, resumeAtlas_cleaned, extractVars, mapVars,
                   kgVars, kgStageVars, resolverVars>>

-----------------------------------------------------------------------------
(* Initial values of the parts of the state a specification leaves alone    *)

IdleFrame == Category = <<>> /\ Text = <<>> /\ Text_Clean = <<>>
IdleFiles == resumeAtlas_cleaned = NoFile /\ extracted_skills_output = NoFile
IdleExtract ==
    /\ HF_TOKEN_L = <<"h", "f", "_", "a">>
    /\ requests = <<>>
    /\ cursor = 0
    /\ extracted_skills_raw = <<>>
IdleMap ==
    /\ esco_df = <<>>
    /\ extracted_skills_set = <<>>
    /\ fuzzy_queries = <<>>
    /\ map_results = <<>>
    /\ mapped_skills_str = <<>>
    /\ mapped_skills_output = NoFile
IdleEval ==
    /\ expected_skills = <<>>
    /\ mapped_skills = <<>>
    /\ metrics = <<>>
    /\ averages = <<>>
IdleKG ==
    /\ extracted_skills_raw_kg = <<>>
    /\ extracted_skills_kg_output = NoFile
    /\ mapped_skills_kg_output = NoFile
    /\ mapped_skills_kg_with_expected_esco_for_ds = NoFile
IdleResolver ==
    /\ occupations = <<>>
    /\ occ_skill_rels = <<>>
    /\ expected_esco_skills = NoFile
    /\ mapped_skills_with_expected_esco_for_ds = NoFile

-----------------------------------------------------------------------------
(* SpecNormalizer: the Normalizer on one record of bounded text             *)

MaxTextLen == 3
NormAlphabet == {"a", "A", "1", " ", "\t", ".", "_"}

InitNormalizer ==
    /\ pc = "normalize"
    /\ error = "none"
    /\ Category = <<>>
    /\ Text \in {<<t>> : t \in StringsUpTo(NormAlphabet, MaxTextLen)}
    /\ Text_Clean = <<>>
    /\ IdleFiles /\ IdleExtract /\ IdleMap /\ IdleEval /\ IdleKG
    /\ IdleResolver

NextNormalizer == NormalizeCell

SpecNormalizer == InitNormalizer /\ [][NextNormalizer]_vars

-----------------------------------------------------------------------------
(* SpecMetrics: the evaluation cell on rows of bounded skill sets           *)

NumSkills == 3
NumEvalRows == 1

python == <<"p", "y", "t", "h", "o", "n">>
sql == <<"s", "q", "l">>
r_lang == <<"r">>
SkillNames == <<python, sql, r_lang, <<"c", "+", "+">>, <<"g", "o">>,
                <<"j", "a", "v", "a">>>>
SkillUniverse ==
    {SkillNames[k] : k \in 1..(IF NumSkills < 6 THEN NumSkills ELSE 6)}

\* a row of the merged file holding the two sets as the cells before write
\* them: the expected list as str(list), the mapped labels joined by ', '
MetricsRow(expected, mapped) ==
    [Category |-> data_science,
     expected_esco_skills |-> list_str(sorted(expected)),
     extracted_skills_raw |-> <<>>,
     mapped_skills_str |-> str_join(<<",", " ">>, sorted(mapped))]

InitMetrics ==
    /\ pc = "evaluate"
    /\ error = "none"
    /\ IdleFrame
    /\ IdleFiles /\ IdleExtract /\ IdleMap /\ IdleKG /\ IdleEval
    /\ occupations = <<>>
    /\ occ_skill_rels = <<>>
    /\ expected_esco_skills = NoFile
    /\ mapped_skills_with_expected_esco_for_ds \in
           {[exists |-> TRUE, rows |-> rows] :
               rows \in [1..NumEvalRows ->
                            {MetricsRow(expected, mapped) :
                                expected \in SUBSET SkillUniverse,
                                mapped \in SUBSET SkillUniverse}]}

NextMetrics == EvaluateCell

SpecMetrics == InitMetrics /\ [][NextMetrics]_vars

-----------------------------------------------------------------------------
(* SpecMapper: the mapping cell on one record, for bounded raw extraction   *)
(* strings and a set of ontologies                                          *)

MaxRawLen == 3
RawAlphabet == {"a", "b", "A", "1", " ", ",", "("}

\* a canonical label that is also another row's alternate, an alternate of
\* two rows, alternates written with padding and quotes
OntoExact ==
    <<[preferredLabel |-> <<"A", "b">>,
      altLabels |-> <<"b", "a", "|", " ", "a", " ", "b", " ">>],
     [preferredLabel |-> <<"a", "a", "b", "b", "b", "b", "b">>,
      altLabels |-> NaN],
     [preferredLabel |-> <<"B", "1">>,
      altLabels |-> <<"a", "b", "|", "\"", "b", "a", "\"">>]>>

\* labels that "aab" scores 60 against and "ab" scores 57 against
OntoFuzzy ==
    <<[preferredLabel |-> <<"a", "a", "b", "b", "b", "b", "b">>,
      altLabels |-> NaN],
     [preferredLabel |-> <<"a", "b", "1", "1", "1">>,
      altLabels |-> <<"b", " ", "b">>]>>

\* labels of one character, with parentheses and with a comma
OntoPunct ==
    <<[preferredLabel |-> <<"A">>,
      altLabels |-> <<"a", "a">>],
     [preferredLabel |-> <<"a", "b", " ", "(", "b", ")">>,
      altLabels |-> NaN],
     [preferredLabel |-> <<"a", "1", ",", " ", "b", "1">>,
      altLabels |-> <<"b", "b">>],
     [preferredLabel |-> <<"a", "b">>,
      altLabels |-> NaN]>>

\* labels equal but for their case, and a repeated row
OntoCase ==
    <<[preferredLabel |-> <<"A", "B">>,
      altLabels |-> NaN],
     [preferredLabel |-> <<"a", "b">>,
      altLabels |-> NaN],
     [preferredLabel |-> <<"A", "B">>,
      altLabels |-> NaN],
     [preferredLabel |-> <<"A", "b">>,
      altLabels |-> <<"b", "1">>]>>

Ontologies == {OntoExact, OntoFuzzy, OntoPunct, OntoCase, <<>>}

\* raw extraction strings longer than MaxRawLen: several phrases, the
\* separators ';' and ' and '
FixtureRaws ==
    {<<"a", "b", ",", " ", "b", "a">>,
     <<"a", "b", " ", "a", "n", "d", " ", "b", "1">>,
     <<"a", "a", "b", ";", "b", "b">>,
     <<"B", "a", ",", " ", "b", " ", "a", ",", "b", "a">>,
     <<"(", "a", ")", ",", " ", "1", "1", " ", ",", "a", "a">>,
     <<"a", "a", "b", ",", " ", "a", "b">>,
     <<"a", "1", " ", "(", "b", "1", ")">>}

RawInputs == StringsUpTo(RawAlphabet, MaxRawLen) \cup FixtureRaws

InitMapper ==
    /\ pc = "map"
    /\ error = "none"
    /\ IdleFrame
    /\ resumeAtlas_cleaned = NoFile
    /\ IdleExtract
    /\ extracted_skills_output \in
           {[exists |-> TRUE,
             rows |-> <<[Category |-> Data_Science, Text |-> <<"A">>,
                         Text_Clean |-> <<"a">>,
                         extracted_skills_raw |-> to_csv_value(raw)]>>] :
               raw \in RawInputs}
    /\ esco_df \in Ontologies
    /\ extracted_skills_set = <<>>
    /\ fuzzy_queries = <<>>
    /\ map_results = <<>>
    /\ mapped_skills_str = <<>>
    /\ mapped_skills_output = NoFile
    /\ IdleEval
    /\ IdleKG
    /\ IdleResolver

NextMapper == MapCell

SpecMapper == InitMapper /\ [][NextMapper]_vars

-----------------------------------------------------------------------------
(* SpecExtractor: either extraction cell on one Data Science record whose   *)
(* normalized text is about MAX_RESUME_CHARS_FOR_LLM characters long        *)

Slack == 5

\* an ontology with entries the keyword filter keeps
OntoKeywords ==
    <<[preferredLabel |-> <<"R">>,
      altLabels |-> NaN],
     [preferredLabel |-> <<"a", "b">>,
      altLabels |-> <<"s", "q", "l", "|", "b">>],
     [preferredLabel |-> <<"A", "b">>,
      altLabels |-> NaN]>>

\* the decimal digits of a number below 100
two_digits(j) ==
    LET digit == <<"0", "1", "2", "3", "4", "5", "6", "7", "8", "9">>
    IN  <<digit[(j \div 10) + 1], digit[(j % 10) + 1]>>

\* an ontology with one entry more than n_samples_for_prompt that the
\* keyword filter keeps, after an entry it drops
OntoMany ==
    <<[preferredLabel |-> <<"A", "b">>, altLabels |-> NaN]>>
        \o [j \in 1..(n_samples_for_prompt + 1) |->
               [preferredLabel |-> <<"R">> \o two_digits(j),
                altLabels |-> NaN]]

\* an ontology the keyword filter keeps no entry of
OntoUnrelated ==
    <<[preferredLabel |-> <<"A", "b">>, altLabels |-> NaN],
      [preferredLabel |-> <<"b", "a">>, altLabels |-> <<"a", "|", "b">>]>>

\* texts of n characters
LongTexts(n) ==
    {[i \in 1..n |-> IF i % 2 = 0 THEN "a" ELSE "b"], [i \in 1..n |-> "x"]}

\* the cleaned file of one Data Science record, or of two
ExtractorFiles ==
    LET texts == UNION {LongTexts(n) :
                     n \in (MAX_RESUME_CHARS_FOR_LLM - Slack)
                               ..(MAX_RESUME_CHARS_FOR_LLM + Slack)}
        row(t) == [Category |-> Data_Science, Text |-> <<"A">>,
                   Text_Clean |-> t]
    IN  {[exists |-> TRUE, rows |-> <<row(t)>>] : t \in texts}
            \cup {[exists |-> TRUE, rows |-> <<row(t), row(<<"A", "b">>)>>] :
                      t \in LongTexts(MAX_RESUME_CHARS_FOR_LLM + Slack)}

InitExtractor ==
    /\ pc \in {"extract", "extract_kg"}
    /\ error = "none"
    /\ IdleFrame
    /\ resumeAtlas_cleaned \in ExtractorFiles
    /\ extracted_skills_output = NoFile
    /\ IdleExtract
    /\ esco_df \in {OntoKeywords, OntoMany, OntoUnrelated}
    /\ extracted_skills_set = <<>>
    /\ fuzzy_queries = <<>>
    /\ map_results = <<>>
    /\ mapped_skills_str = <<>>
    /\ mapped_skills_output = NoFile
    /\ IdleEval
    /\ IdleKG
    /\ IdleResolver

NextExtractor ==
    \/ ExtractCell
    \/ ExtractCellKG

SpecExtractor == InitExtractor /\ [][NextExtractor]_vars

-----------------------------------------------------------------------------
(* SpecResolver: the ground-truth cell, the merge cell and the evaluation    *)
(* cell on small occupation and relation tables                             *)

NumMappedRows == 2

nurse == <<"n", "u", "r", "s", "e">>

OccupationTables ==
    {<<[conceptUri |-> "o1", preferredLabel |-> <<" ">> \o Data_Scientist],
       [conceptUri |-> "o2", preferredLabel |-> nurse]>>,
     <<[conceptUri |-> "o2", preferredLabel |-> nurse]>>,
     <<[conceptUri |-> "o1", preferredLabel |-> data_scientist],
       [conceptUri |-> "o3", preferredLabel |-> Data_Scientist]>>,
     <<[conceptUri |-> "o4", preferredLabel |-> data_science],
       [conceptUri |-> "o2", preferredLabel |-> nurse]>>}

RelationTables ==
    {<<>>,
     <<[occupationUri |-> "o1", skillUri |-> 1],
       [occupationUri |-> "o2", skillUri |-> 2],
       [occupationUri |-> "o1", skillUri |-> 3]>>,
     <<[occupationUri |-> "o3", skillUri |-> 2],
       [occupationUri |-> "o1", skillUri |-> 2],
       [occupationUri |-> "o1", skillUri |-> 7],
       [occupationUri |-> "o4", skillUri |-> 1]>>}

\* rows of mapped_skills_output.csv: the Mapper's strings over OntoExact
MappedRows ==
    {[Category |-> Data_Science, Text_Clean |-> <<"a">>,
      extracted_skills_raw |-> raw, mapped_skills_str |-> MappedStringOf(raw)] :
        raw \in {<<>>, <<"a", "b">>, <<"a", "b", ",", " ", "b", "1">>}}

InitResolver ==
    /\ pc = "ground_truth"
    /\ error = "none"
    /\ IdleFrame
    /\ IdleFiles
    /\ IdleExtract
    /\ esco_df = OntoExact
    /\ extracted_skills_set = <<>>
    /\ fuzzy_queries = <<>>
    /\ map_results = <<>>
    /\ mapped_skills_str = <<>>
    /\ mapped_skills_output \in
           {[exists |-> TRUE, rows |-> rows] :
               rows \in UNION {[1..n -> MappedRows] : n \in 0..NumMappedRows}}
    /\ IdleEval
    /\ IdleKG
    /\ occupations \in OccupationTables
    /\ occ_skill_rels \in RelationTables
    /\ expected_esco_skills = NoFile
    /\ mapped_skills_with_expected_esco_for_ds = NoFile

NextResolver ==
    \/ GroundTruthCell
    \/ MergeCell
    \/ EvaluateCell

SpecResolver == InitResolver /\ [][NextResolver]_vars

-----------------------------------------------------------------------------
(* Spec: the cells in notebook order, from the loaded resumes to the        *)
(* evaluation of the LLM+KG extraction                                      *)

NumRecords == 2

Human_Resources == <<"H", "R">>

\* Text as pd.read_csv loads it: a missing field is nan, never ''
TextValues == {NaN, <<" ", "1">>, <<"A", "b", ".">>, <<"B", " ", "a">>}

\* occupations_en.csv with and without an occupation 'data scientist'
PipelineOccupations ==
    {<<[conceptUri |-> "o1", preferredLabel |-> data_scientist],
       [conceptUri |-> "o2", preferredLabel |-> nurse]>>,
     <<[conceptUri |-> "o2", preferredLabel |-> nurse]>>}

\* occupationSkillRelations_en.csv: skills of both occupations
PipelineRelations ==
    <<[occupationUri |-> "o1", skillUri |-> 1],
      [occupationUri |-> "o2", skillUri |-> 2],
      [occupationUri |-> "o1", skillUri |-> 2]>>

Init ==
    /\ pc = "normalize"
    /\ error = "none"
    /\ Category \in [1..NumRecords -> {Data_Science, Human_Resources}]
    /\ Text \in [1..NumRecords -> TextValues]
    /\ Text_Clean = <<>>
    /\ IdleFiles
    /\ HF_TOKEN_L \in {None, <<"h", "f", "_", "a">>}
    /\ requests = <<>>
    /\ cursor = 0
    /\ extracted_skills_raw = <<>>
    /\ esco_df = OntoExact
    /\ extracted_skills_set = <<>>
    /\ fuzzy_queries = <<>>
    /\ map_results = <<>>
    /\ mapped_skills_str = <<>>
    /\ mapped_skills_output = NoFile
    /\ IdleEval
    /\ IdleKG
    /\ occupations \in PipelineOccupations
    /\ occ_skill_rels = PipelineRelations
    /\ expected_esco_skills = NoFile
    /\ mapped_skills_with_expected_esco_for_ds = NoFile

Next ==
    \/ NormalizeCell
    \/ SaveCleaned
    \/ ExtractCell
    \/ MapCell
    \/ GroundTruthCell
    \/ MergeCell
    \/ EvaluateCell
    \/ ExtractCellKG
    \/ MapCellKG
    \/ MergeCellKG
    \/ EvaluateCellKG

Spec == Init /\ [][Next]_vars

-----------------------------------------------------------------------------
(* C1: for every pair of skill sets, calculate_metrics(expected, mapped)    *)
(* gives precision = |mapped n expected| / |mapped| (0 for an empty mapped  *)
(* set), recall = |mapped n expected| / |expected| (0 for an empty expected *)
(* set) and F1 = 2 p r / (p + r) (0 when both are 0); {python, sql} against *)
(* {python, r} gives 1/2, 1/2, 1/2; the expected set is the ground truth.   *)

\* x is the number n / d, or 0 when d = 0
IsRatio(x, n, d) ==
    /\ x.den > 0
    /\ IF d = 0 THEN x.num = 0 ELSE x.num * d = n * x.den

C1_MetricsFormula ==
    pc = "extract_kg" =>
        \A k \in DOMAIN metrics :
            LET M == mapped_skills[k]
                E == expected_skills[k]
                both == Cardinality(M \cap E)
                P == metrics[k].precision
                R == metrics[k].recall
                F == metrics[k].f1_score
            IN  /\ IsRatio(P, both, Cardinality(M))
                /\ IsRatio(R, both, Cardinality(E))
                /\ F.den > 0
                /\ IF P.num = 0 /\ R.num = 0 THEN F.num = 0
                   ELSE F.num * (P.num * R.den + R.num * P.den)
                            = 2 * P.num * R.num * F.den
                /\ (M = {python, sql} /\ E = {python, r_lang}) =>
                       /\ P = [num |-> 1, den |-> 2]
                       /\ R = [num |-> 1, den |-> 2]
                       /\ F = [num |-> 1, den |-> 2]

C1_Witness ==
    /\ pc = "extract_kg"
    /\ \E k \in DOMAIN metrics :
          /\ mapped_skills[k] = {python, sql}
          /\ expected_skills[k] = {python, r_lang}
          /\ metrics[k].f1_score = [num |-> 1, den |-> 2]

(* C2: an empty mapped set or an empty expected set (or both) gives         *)
(* precision = recall = F1 = 0, and no division by zero is raised.          *)
C2_EmptySetsGiveZero ==
    /\ error # "ZeroDivisionError"
    /\ pc = "extract_kg" =>
        \A k \in DOMAIN metrics :
            (mapped_skills[k] = {} \/ expected_skills[k] = {}) =>
                /\ metrics[k].precision = int(0)
                /\ metrics[k].recall = int(0)
                /\ metrics[k].f1_score = int(0)

C2_Witness ==
    /\ pc = "extract_kg"
    /\ \E k \in DOMAIN metrics :
          /\ mapped_skills[k] = {}
          /\ expected_skills[k] = {python}
          /\ metrics[k].recall = int(0)

(* Claims about the Mapper, on the state the mapping cell leaves            *)

Mapped == pc = "ground_truth"
Rows == 1..Len(extracted_skills_set)
CanonicalLabels == {esco_df[j].preferredLabel : j \in 1..Len(esco_df)}

\* phrase is, but for case, the canonical label of row j / one of the
\* alternate labels the altLabels field of row j lists
IsCanonicalOf(phrase, j) == str_lower(esco_df[j].preferredLabel) = phrase
IsAlternateOf(phrase, j) == phrase \in alt_keys(esco_df[j])

(* C3: a candidate phrase that is verbatim, but for case, a canonical label *)
(* or an alternate label of the ontology maps to the canonical label it     *)
(* belongs to, and fuzzy matching is not consulted for it.                  *)
C3_ExactMatchFirst ==
    Mapped =>
        \A k \in Rows : \A x \in extracted_skills_set[k] :
            LET got == map_results[k][x]
                canonical == {j \in 1..Len(esco_df) : IsCanonicalOf(x, j)}
                alternate == {j \in 1..Len(esco_df) : IsAlternateOf(x, j)}
            IN  /\ canonical # {} =>
                    /\ \E j \in canonical : got = esco_df[j].preferredLabel
                    /\ x \notin fuzzy_queries[k]
                /\ (canonical = {} /\ alternate # {}) =>
                    /\ \E j \in alternate : got = esco_df[j].preferredLabel
                    /\ x \notin fuzzy_queries[k]

\* an alternate-label match on an ontology where fuzzy matching would give
\* another label
C3_Witness ==
    /\ Mapped
    /\ esco_df = OntoCase
    /\ \E k \in Rows :
          /\ <<"b", "1">> \in extracted_skills_set[k]
          /\ map_results[k][<<"b", "1">>] = <<"A", "b">>
          /\ fuzzy_queries[k] = {}

(* C4: a candidate phrase with no exact canonical or alternate match        *)
(* contributes nothing when its best fuzzy score over the canonical labels  *)
(* is below 60, and contributes the best-scoring canonical label, and only  *)
(* that, when the best score is 60 or more.                                 *)
NoExactMatch(x) ==
    /\ x \notin DOMAIN pref_map(esco_df)
    /\ x \notin DOMAIN alt_map(esco_df)

ScoreAgainst(x, j) == fuzzy_score(x, esco_df[j].preferredLabel)

C4_FuzzyThreshold ==
    Mapped =>
        \A k \in Rows : \A x \in extracted_skills_set[k] :
            NoExactMatch(x) =>
                LET got == map_results[k][x]
                    all == 1..Len(esco_df)
                IN  IF \A j \in all : ScoreAgainst(x, j) < 60
                    THEN got = None
                    ELSE \E j \in all :
                            /\ got = esco_df[j].preferredLabel
                            /\ ScoreAgainst(x, j) >= 60
                            /\ \A i \in all : ScoreAgainst(x, i) <= ScoreAgainst(x, j)

\* a phrase accepted at exactly 60 beside one dropped at 57
C4_Witness ==
    /\ Mapped
    /\ esco_df = OntoFuzzy
    /\ \E k \in Rows :
          /\ extracted_skills_set[k] = {<<"a", "a", "b">>, <<"a", "b">>}
          /\ ScoreAgainst(<<"a", "a", "b">>, 1) = 60
          /\ map_results[k][<<"a", "a", "b">>] = esco_df[1].preferredLabel
          /\ ScoreAgainst(<<"a", "b">>, 2) = 57
          /\ map_results[k][<<"a", "b">>] = None

(* C5: running the Mapper (clean_extracted_skills, then map_to_esco on each *)
(* phrase) on its own output string gives the same set of canonical labels, *)
(* for every ontology.                                                      *)
LabelsOf(results) == {results[x] : x \in DOMAIN results} \ {None, <<>>}

Remapped(output) ==
    LET calls == map_all(clean_extracted_skills(output))
    IN  LabelsOf([x \in DOMAIN calls |-> calls[x].returns])

C5_MapperIdempotent ==
    Mapped =>
        \A k \in Rows :
            Remapped(mapped_skills_str[k]) = LabelsOf(map_results[k])

(* C6: every element of a record's mapped skill set is a canonical label of *)
(* the ontology: never an alternate label, a cleaned phrase or a            *)
(* placeholder.                                                             *)
C6_OnlyCanonicalLabels ==
    Mapped =>
        \A k \in Rows :
            /\ \A x \in extracted_skills_set[k] :
                   map_results[k][x] = None
                       \/ map_results[k][x] \in CanonicalLabels
            /\ LabelsOf(map_results[k]) \subseteq CanonicalLabels
            /\ mapped_skills_str[k] # <<>> => LabelsOf(map_results[k]) # {}

\* a fuzzy match and an alternate match, neither phrase a canonical label
C6_Witness ==
    /\ Mapped
    /\ esco_df = OntoExact
    /\ \E k \in Rows :
          /\ extracted_skills_set[k] = {<<"b", "a">>, <<"b", " ", "a">>}
          /\ map_results[k][<<"b", "a">>] = <<"B", "1">>
          /\ <<"b", " ", "a">> \in fuzzy_queries[k]
          /\ map_results[k][<<"b", " ", "a">>] \in CanonicalLabels

(* C8: a raw extraction value that is empty, whitespace-only or no string   *)
(* gives the empty set, and the mapping stage raises for no input.          *)
C8_BlankInputMapsToNothing ==
    /\ error = "none"
    /\ pc # "failed"
    /\ Mapped =>
        \A k \in Rows :
            (~isinstance_str(extracted_skills_raw[k])
                \/ str_strip(extracted_skills_raw[k]) = <<>>) =>
                /\ extracted_skills_set[k] = {}
                /\ map_results[k] = <<>>
                /\ mapped_skills_str[k] = <<>>
                /\ mapped_skills_output.exists
                /\ mapped_skills_output.rows[k].mapped_skills_str = <<>>

\* the missing value read back from the file
C8_Witness ==
    /\ Mapped
    /\ esco_df = OntoExact
    /\ extracted_skills_raw = <<NaN>>
    /\ extracted_skills_set = <<{}>>
    /\ mapped_skills_output.exists

(* C7: for every input string the Normalizer's output holds no digit, no    *)
(* two consecutive spaces, no upper-case letter and no leading or trailing  *)
(* whitespace.                                                              *)
C7_NormalizedShape ==
    pc = "save_cleaned" =>
        \A k \in 1..Len(Text_Clean) :
            isinstance_str(Text[k]) =>
                LET out == Text_Clean[k]
                IN  /\ \A j \in 1..Len(out) :
                           out[j] \notin Digits /\ out[j] \notin UpperLetters
                    /\ \A j \in 1..(Len(out) - 1) :
                           ~(out[j] = " " /\ out[j + 1] = " ")
                    /\ out # <<>> =>
                           /\ out[1] \notin Whitespace
                           /\ out[Len(out)] \notin Whitespace

C7_Witness ==
    /\ pc = "save_cleaned"
    /\ Text[1] = <<"A", "1", "\t">>
    /\ Text_Clean[1] = <<"a">>

-----------------------------------------------------------------------------
(* C9: a record whose raw text is not a string is normalized to an empty    *)
(* (missing) result, and the extraction stage never fails at such a record: *)
(* whenever the stage stops at a record, that record's raw text is a string *)

C9_NonStringTextHarmless ==
    /\ Len(Text_Clean) = Len(Text) =>
           \A k \in 1..Len(Text) :
               ~isinstance_str(Text[k]) => Text_Clean[k] \in {<<>>, NaN}
    /\ \A k \in 1..Len(Text) :
           (pc = "failed" /\ cursor = k) => isinstance_str(Text[k])

-----------------------------------------------------------------------------
(* C10: a remote inference failure on one record does not abort the batch:  *)
(* once a remote call has failed, the stage still goes on to write its      *)
(* output file with every record of the batch                               *)

RemoteFailures == {c.raises : c \in RemoteCompletions} \ {"none"}

C10_RemoteFailurePerRecord ==
    error \in RemoteFailures =>
        /\ pc # "failed"
        /\ extracted_skills_output.exists
        /\ Len(extracted_skills_output.rows) = Len(Text_Clean)

-----------------------------------------------------------------------------
(* C11: a transiently failed inference call is retried at the call site     *)
(* (the record it failed on was sent more than once before the stage gave   *)
(* up), and a failed call is never recorded as an empty extraction string   *)

TransientFailures == {"InferenceTimeoutError", "HfHubHTTPError"}

C11_FailedCallRetried ==
    /\ (pc = "failed" /\ error \in TransientFailures) => Len(requests) > cursor
    /\ error \in RemoteFailures =>
           \A k \in DOMAIN extracted_skills_raw :
               k >= cursor => extracted_skills_raw[k] # <<>>

-----------------------------------------------------------------------------
(* C12: in both prompting configurations the resume text in the user        *)
(* message is the normalized text unchanged when it has at most 4000        *)
(* characters, and otherwise its first 4000 characters followed by '...';   *)
(* it never exceeds 4003 characters                                         *)

\* the resume text inside the user message of a request
SentText(request) ==
    LET user == request.messages.user
    IN  IF request.messages.system = ZeroShotSystemPrompt
        THEN SubSeq(user, 1, Len(user) - Len(SkillsSuffix))
        ELSE SubSeq(user, Len(ResumePrefix) + 1,
                    Len(user) - Len(SkillsSuffix) - 1)

C12_PromptTextTruncation ==
    \A k \in DOMAIN requests :
        LET sent == SentText(requests[k])
            text == Text_Clean[k]
        IN  /\ Len(sent) <= 4003
            /\ Len(text) <= 4000 => sent = text
            /\ Len(text) > 4000 =>
                   /\ Len(sent) = 4003
                   /\ \A i \in 1..4000 : sent[i] = text[i]
                   /\ \A i \in 4001..4003 : sent[i] = "."

C12_Witness ==
    /\ \E k \in DOMAIN requests :
           /\ Len(Text_Clean[k]) > 4000
           /\ requests[k].messages.system # ZeroShotSystemPrompt
    /\ pc = "map_kg"

-----------------------------------------------------------------------------
(* C13: the rows of each stage output follow the order of the stage's input *)
(* rows; the extraction stored on row i answers the request that carried    *)
(* the text of input row i, and the mapped skill string on row i is the     *)
(* mapping of the extraction of row i                                       *)

C13_RowOrderPreserved ==
    /\ extracted_skills_output.exists =>
           LET input == SelectSeq(resumeAtlas_cleaned.rows, is_data_science)
               output == extracted_skills_output.rows
           IN  /\ Len(output) = Len(input)
               /\ \A k \in DOMAIN output :
                      /\ output[k].Category = input[k].Category
                      /\ output[k].Text = input[k].Text
                      /\ output[k].Text_Clean = input[k].Text_Clean
    /\ pc = "map" =>
           /\ Len(requests) = Len(extracted_skills_output.rows)
           /\ \A k \in DOMAIN requests :
                  /\ SentText(requests[k])
                         = extracted_skills_output.rows[k].Text_Clean
                  /\ extracted_skills_output.rows[k].extracted_skills_raw
                         = requests[k].completion.value
    /\ mapped_skills_output.exists =>
           LET input == extracted_skills_output.rows
               output == mapped_skills_output.rows
           IN  /\ Len(output) = Len(input)
               /\ \A k \in DOMAIN output :
                      /\ output[k].Category = input[k].Category
                      /\ output[k].Text_Clean = input[k].Text_Clean
                      /\ output[k].extracted_skills_raw
                             = input[k].extracted_skills_raw
                      /\ output[k].mapped_skills_str
                             = MappedStringOf(input[k].extracted_skills_raw)

C13_Witness ==
    /\ pc = "ground_truth"
    /\ Len(mapped_skills_output.rows) = 2
    /\ mapped_skills_output.rows[1].Text_Clean
           # mapped_skills_output.rows[2].Text_Clean
    /\ mapped_skills_output.rows[1].extracted_skills_raw
           # mapped_skills_output.rows[2].extracted_skills_raw
    /\ mapped_skills_output.rows[1].mapped_skills_str
           # mapped_skills_output.rows[2].mapped_skills_str

-----------------------------------------------------------------------------
(* C14: the Resolver never fails; a record has an expected skill set only   *)
(* if its category label is, but for case, the label of an occupation of    *)
(* the occupation table, and then the set is exactly the skills related to  *)
(* that occupation; every other record has a null expected set, never an    *)
(* empty one                                                                *)

\* the occupations whose label is, but for case and outer blanks, category
OccupationsLabelled(category) ==
    {o \in DOMAIN occupations :
        lower_strip(occupations[o].preferredLabel) = category}

\* the labels of the skills the relation table relates to these occupations
RelatedSkills(occs) ==
    {esco_df[occ_skill_rels[r].skillUri].preferredLabel :
        r \in {q \in DOMAIN occ_skill_rels :
                 /\ \E o \in occs :
                        occupations[o].conceptUri = occ_skill_rels[q].occupationUri
                 /\ occ_skill_rels[q].skillUri \in DOMAIN esco_df}}

C14_ExpectedSetByOccupation ==
    /\ pc # "failed"
    /\ mapped_skills_with_expected_esco_for_ds.exists =>
           \A k \in DOMAIN mapped_skills_with_expected_esco_for_ds.rows :
               LET row == mapped_skills_with_expected_esco_for_ds.rows[k]
                   occs == OccupationsLabelled(row.Category)
               IN  IF occs # {} /\ RelatedSkills(occs) # {}
                   THEN /\ is_list_display(row.expected_esco_skills)
                        /\ Range(list_display_items(row.expected_esco_skills))
                               = RelatedSkills(occs)
                   ELSE row.expected_esco_skills = <<>>

\* the records of the merged file that carry an expected set
HasExpectedSet ==
    {k \in DOMAIN mapped_skills_with_expected_esco_for_ds.rows :
        read_csv_value(mapped_skills_with_expected_esco_for_ds.rows[k]
                           .expected_esco_skills) # NaN}

\* the records of category 'data science' that carry an expected set
ScoredRecords == {k \in HasExpectedSet : Category[k] = data_science}

\* n times the reported average equals the sum of the metric over the records
IsMeanOver(average, rows, field) ==
    mul(int(Cardinality(rows)), average) =
        sum([k \in rows |-> metrics[k][field]], rows)

\* C15: after the evaluation cell the scored records are exactly the records
\* of category 'data science' that have an expected set, each reported
\* average is the arithmetic mean of the metric over them, and when no
\* record has an expected set nothing is scored and no average is reported
C15_AveragesOverScoredRecords ==
    pc = "extract_kg" =>
        /\ DOMAIN metrics = ScoredRecords
        /\ ScoredRecords = {} => averages = <<>>
        /\ ScoredRecords # {} =>
               /\ IsMeanOver(averages.precision, ScoredRecords, "precision")
               /\ IsMeanOver(averages.recall, ScoredRecords, "recall")
               /\ IsMeanOver(averages.f1_score, ScoredRecords, "f1_score")

\* two scored records with different precision have been averaged
C15_Witness ==
    /\ pc = "extract_kg"
    /\ ScoredRecords = {1, 2}
    /\ metrics[1].precision # metrics[2].precision
    /\ averages.precision \notin {metrics[1].precision, metrics[2].precision}

\* the mapping columns of the LLM+KG frame are what the LLM-only functions
\* give on the LLM+KG extraction of row k
SameMapping(k) ==
    /\ extracted_skills_set[k] = clean_extracted_skills(extracted_skills_raw_kg[k])
    /\ map_results[k] =
           [x \in extracted_skills_set[k] |->
               map_to_esco(x, pref_map(esco_df), alt_map(esco_df),
                           esco_preferred_lower_list(esco_df)).returns]
    /\ mapped_skills_str[k] = mapped_skills_str_of(map_results[k])

\* row k of both merged files carries the same expected skills
SameExpectedSet(k) ==
    mapped_skills_kg_with_expected_esco_for_ds.rows[k].expected_esco_skills =
        mapped_skills_with_expected_esco_for_ds.rows[k].expected_esco_skills

\* the evaluation columns of the LLM+KG frame are what the LLM-only functions
\* give on row k of the LLM+KG merged file
SameEvaluation(k) ==
    /\ expected_skills[k] =
           parse_skills(read_csv_value(
               mapped_skills_kg_with_expected_esco_for_ds.rows[k]
                   .expected_esco_skills))
    /\ mapped_skills[k] =
           parse_skills(read_csv_value(
               mapped_skills_kg_with_expected_esco_for_ds.rows[k]
                   .mapped_skills_str))
    /\ metrics[k] = calculate_metrics(expected_skills[k], mapped_skills[k])

\* C16: the cleaning, mapping, parsing and metric functions of the LLM+KG
\* cells give on every LLM+KG record what the LLM-only functions give on the
\* same input, and both merged files carry the same expected skills
C16_SameFunctionsBothPipelines ==
    /\ pc \in {"merge_kg", "evaluate_kg", "evaluated_kg"} =>
           \A k \in DOMAIN extracted_skills_raw_kg : SameMapping(k)
    /\ pc \in {"evaluate_kg", "evaluated_kg"} =>
           /\ Len(mapped_skills_kg_with_expected_esco_for_ds.rows)
                  = Len(mapped_skills_with_expected_esco_for_ds.rows)
           /\ \A k \in DOMAIN mapped_skills_kg_with_expected_esco_for_ds.rows :
                  SameExpectedSet(k)
    /\ pc = "evaluated_kg" =>
           \A k \in DOMAIN mapped_skills_kg_with_expected_esco_for_ds.rows :
               SameEvaluation(k)

\* the LLM+KG evaluation has scored a record whose LLM+KG extraction differs
\* from its LLM-only one and maps to a label
C16_Witness ==
    /\ pc = "evaluated_kg"
    /\ \E k \in DOMAIN metrics :
           /\ extracted_skills_raw_kg[k] # extracted_skills_raw[k]
           /\ mapped_skills[k] # {}
           /\ metrics[k].precision # int(0)

\* the files the stages write
StageFiles ==
    <<resumeAtlas_cleaned, extracted_skills_output, mapped_skills_output,
      expected_esco_skills, mapped_skills_with_expected_esco_for_ds,
      extracted_skills_kg_output, mapped_skills_kg_output,
      mapped_skills_kg_with_expected_esco_for_ds>>

\* the records the extraction cells process
DataScienceRows == SelectSeq(resumeAtlas_cleaned.rows, is_data_science)

\* a file that exists was written from an existing input file and holds one
\* row per record of its input
SnapshotOf(file, input, records) ==
    file.exists => input.exists /\ Len(file.rows) = records

CompleteSnapshots ==
    /\ resumeAtlas_cleaned.exists => Len(resumeAtlas_cleaned.rows) = NumRecords
    /\ SnapshotOf(extracted_skills_output, resumeAtlas_cleaned,
                  Len(DataScienceRows))
    /\ SnapshotOf(mapped_skills_output, extracted_skills_output,
                  Len(extracted_skills_output.rows))
    /\ SnapshotOf(mapped_skills_with_expected_esco_for_ds, mapped_skills_output,
                  Len(mapped_skills_output.rows))
    /\ mapped_skills_with_expected_esco_for_ds.exists => expected_esco_skills.exists
    /\ SnapshotOf(extracted_skills_kg_output, resumeAtlas_cleaned,
                  Len(DataScienceRows))
    /\ SnapshotOf(mapped_skills_kg_output, extracted_skills_kg_output,
                  Len(extracted_skills_kg_output.rows))
    /\ SnapshotOf(mapped_skills_kg_with_expected_esco_for_ds,
                  mapped_skills_kg_output, Len(mapped_skills_kg_output.rows))
    /\ mapped_skills_kg_with_expected_esco_for_ds.exists =>
           expected_esco_skills.exists
    /\ error # "FileNotFoundError"

\* a step that writes an extraction file has called the endpoint for every
\* record, a step that writes a mapped file has mapped every row, and a step
\* that fails writes no file
WrittenAfterProcessing ==
    /\ extracted_skills_output' # extracted_skills_output =>
           /\ cursor' = Len(DataScienceRows)
           /\ Len(requests') = Len(DataScienceRows)
    /\ extracted_skills_kg_output' # extracted_skills_kg_output =>
           /\ cursor' = Len(DataScienceRows)
           /\ Len(requests') = Len(DataScienceRows)
    /\ mapped_skills_output' # mapped_skills_output =>
           Len(mapped_skills_str') = Len(extracted_skills_output.rows)
    /\ mapped_skills_kg_output' # mapped_skills_kg_output =>
           Len(mapped_skills_str') = Len(extracted_skills_kg_output.rows)
    /\ pc' = "failed" => UNCHANGED StageFiles

AbsentCredentialStops ==
    HF_TOKEN_L = None =>
        /\ requests = <<>>
        /\ ~extracted_skills_output.exists
        /\ ~extracted_skills_kg_output.exists
        /\ pc \in {"normalize", "save_cleaned", "extract", "failed"}
        /\ pc = "failed" /\ resumeAtlas_cleaned.exists =>
               error = "SecretNotFoundError"

\* no step follows the stop: the set-up is not attempted again
NoStepAfterStop == ~(HF_TOKEN_L = None /\ pc = "failed")

\* C18: when the credential is absent the run stops at the client set-up
\* with SecretNotFoundError, no inference call is made, neither extraction
\* file is written, and no step follows the stop
C18_AbsentCredentialIsFatal == []AbsentCredentialStops /\ [][NoStepAfterStop]_vars

\* the run stopped at the client set-up with Data Science records waiting
C18_Witness ==
    /\ HF_TOKEN_L = None
    /\ pc = "failed"
    /\ error = "SecretNotFoundError"
    /\ resumeAtlas_cleaned.exists
    /\ Len(DataScienceRows) = NumRecords

\* the phrases of the candidate sets the mapping cell has built
CandidatePhrases == UNION {extracted_skills_set[k] : k \in Rows}

\* every phrase is made of the characters the cleaning keeps
OnlyPhraseChars == Mapped => \A x \in CandidatePhrases : Range(x) \subseteq PhraseChars

\* C19: no phrase of a candidate set is empty, purely numeric or one
\* character long, whatever punctuation the fragment carried, and every
\* phrase consists of a-z, 0-9, whitespace, '.', '+', '#' and '-' only
C19_CleanPhrasesWellFormed ==
    Mapped =>
        \A x \in CandidatePhrases :
            /\ x # <<>>
            /\ ~str_isdigit(x)
            /\ Len(x) > 1
            /\ Range(x) \subseteq PhraseChars

\* the rows whose canonical label / whose alternate labels match the phrase
CanonicalRows(x) == {j \in 1..Len(esco_df) : IsCanonicalOf(x, j)}
AlternateRows(x) == {j \in 1..Len(esco_df) : IsAlternateOf(x, j)}

\* a second call of map_to_esco on the phrase
CalledAgain(x) ==
    map_to_esco(x, pref_map(esco_df), alt_map(esco_df),
                esco_preferred_lower_list(esco_df)).returns

\* C20: a phrase matching a canonical label resolves to that label although
\* another row lists it as an alternate; a phrase matching alternates only
\* resolves to the label of one row listing it; fuzzy similarity is asked
\* only for a non-empty phrase matching neither; a second call gives the
\* same label
C20_ResolutionOrder ==
    Mapped =>
        \A k \in Rows :
            \A x \in extracted_skills_set[k] :
                /\ CanonicalRows(x) # {} =>
                       map_results[k][x] \in
                           {esco_df[j].preferredLabel : j \in CanonicalRows(x)}
                /\ (CanonicalRows(x) = {} /\ AlternateRows(x) # {}) =>
                       map_results[k][x] \in
                           {esco_df[j].preferredLabel : j \in AlternateRows(x)}
                /\ x \in fuzzy_queries[k] <=>
                       (x # <<>> /\ CanonicalRows(x) = {} /\ AlternateRows(x) = {})
                /\ map_results[k][x] = CalledAgain(x)

\* "ab" is the canonical label of one row and an alternate of another, "ba"
\* an alternate of two rows: the first resolves to its own row's label, the
\* second to one label
C20_Witness ==
    /\ Mapped
    /\ \E k \in Rows :
          /\ {<<"a", "b">>, <<"b", "a">>} \subseteq extracted_skills_set[k]
          /\ Cardinality(CanonicalRows(<<"a", "b">>)) = 1
          /\ AlternateRows(<<"a", "b">>) \ CanonicalRows(<<"a", "b">>) # {}
          /\ Cardinality(AlternateRows(<<"b", "a">>)) = 2
          /\ CanonicalRows(<<"b", "a">>) = {}

\* the sorted, comma-joined listing of a record's mapped skill set
SortedListing(results) == str_join(<<",", " ">>, sorted(LabelsOf(results)))

\* C21: the mapped skill string of a record, in the frame and in the file,
\* lists the canonical labels its phrases resolved to in ascending order,
\* each label once, also when several phrases resolve to the same label
C21_SortedSetListing ==
    Mapped =>
        \A k \in Rows :
            /\ mapped_skills_str[k] = SortedListing(map_results[k])
            /\ read_csv_value(mapped_skills_output.rows[k].mapped_skills_str) =
                   (IF SortedListing(map_results[k]) = <<>> THEN NaN
                    ELSE SortedListing(map_results[k]))

-----------------------------------------------------------------------------
(* C22: what the two prompts carry of the ontology                           *)

\* the requests whose system prompt is the zero-shot instruction alone
ZeroShotRequests ==
    {k \in DOMAIN requests : requests[k].messages.system = ZeroShotSystemPrompt}

\* the text between the brackets that close a knowledge-graph-guided prompt
HintText(request) ==
    SubSeq(request.messages.system, 5, Len(request.messages.system) - 2)

\* the hints of a request, the text between the brackets cut at ", "
HintList(request) ==
    IF HintText(request) = <<>> THEN <<>>
    ELSE LET pieces == str_split(HintText(request), ",")
         IN  [j \in DOMAIN pieces |->
                 IF j = 1 THEN pieces[j] ELSE Tail(pieces[j])]

\* the canonical labels of the ontology entries the keyword filter keeps
FilteredLabels ==
    LET kept == SelectSeq(esco_df, is_ce_related)
    IN  [i \in DOMAIN kept |-> kept[i].preferredLabel]

Occurrences(x, list) == Cardinality({i \in DOMAIN list : list[i] = x})

\* the hints are labels of distinct filtered entries, as many as there are
\* filtered entries up to n_samples_for_prompt
HintsFromFilteredEntries(hints, labels) ==
    /\ Len(hints) = (IF Len(labels) < n_samples_for_prompt
                     THEN Len(labels) ELSE n_samples_for_prompt)
    /\ \A i \in DOMAIN hints :
           /\ Occurrences(hints[i], labels) > 0
           /\ Occurrences(hints[i], hints) <= Occurrences(hints[i], labels)

\* a zero-shot request is the instruction and the resume text, nothing else
NoHintNoExample(k) ==
    /\ requests[k].messages.system = ZeroShotSystemPrompt
    /\ requests[k].messages.user =
           resume_text_for_llm(Text_Clean[k]) \o SkillsSuffix

\* C22: the hints of every knowledge-graph-guided request are canonical
\* labels of keyword-filtered ontology entries only, min(50, number of
\* filtered entries) of them and none when the filter keeps nothing, every
\* request of the batch carries the same hints, the hints are a function of
\* the ontology alone, and a zero-shot request carries neither hints nor
\* examples
C22_HintsFromFilteredOntology ==
    /\ \A k \in DOMAIN requests \ ZeroShotRequests :
           /\ HintsFromFilteredEntries(HintList(requests[k]), FilteredLabels)
           /\ FilteredLabels = <<>> => HintText(requests[k]) = <<>>
           /\ HintText(requests[k]) = HintText(requests[1])
           /\ HintText(requests[k]) = esco_skills_string(esco_df)
           /\ requests[k].messages.system[2] = few_shot_examples_ds[1]
    /\ \A k \in ZeroShotRequests : NoHintNoExample(k)
    /\ pc = "map" => ZeroShotRequests = DOMAIN requests
    /\ pc = "map_kg" => ZeroShotRequests = {}

\* a batch of two records on an ontology with more filtered entries than
\* n_samples_for_prompt, and an entry the filter drops
C22_Witness ==
    /\ pc = "map_kg"
    /\ Len(requests) = 2
    /\ Len(FilteredLabels) > n_samples_for_prompt
    /\ Len(FilteredLabels) < Len(esco_df)
    /\ Len(HintList(requests[2])) = n_samples_for_prompt

-----------------------------------------------------------------------------
(* C23: the round trip of a mapped skill set through the mapped skill       *)
(* string                                                                   *)

\* the set parse_skills reads back from the mapped skill string of record k
ReadBack(k) ==
    parse_skills(read_csv_value(mapped_skills_output.rows[k].mapped_skills_str))

\* C23: for every record, parse_skills applied to the written mapped skill
\* string yields exactly the lower-cased canonical labels the record's
\* phrases resolved to: no label is split, merged or lost
C23_MapperEvaluatorRoundTrip ==
    Mapped =>
        \A k \in Rows :
            ReadBack(k) = {str_lower(label) : label \in LabelsOf(map_results[k])}

====
